---- MODULE Spec2Model ----
(***************************************************************************)
(* BookByte: the token-bounded elastic segmenter (splitByTokensElastic)    *)
(* and the guide / chapter pipeline of the server (buildGlobalGuide,       *)
(* polishGlobalGuide, summarizeChapterWithContext and the routes           *)
(* /extract-auto, /resume-extract-auto, /rerun-chapter-from-outputs).      *)
(*                                                                         *)
(* Eight state machines share the module:                                    *)
(*   SplitSpec  calls of splitByTokensElastic, one loop iteration per      *)
(*              step, over every text and parameter choice in the bounds;  *)
(*   Spec       the run directory, the oracle and the request handlers,    *)
(*              one request at a time, one retry-loop step per action;     *)
(*   RaceSpec   several handlers at work in one run directory, one await   *)
(*              per action, with the file writes split in open and done.   *)
(*   CountSpec  countTokens and getEncoder over texts and model            *)
(*              identifiers the tokenizer library knows or does not know;  *)
(*   ParamSpec  computeChapterSegmentationParams over books of every size; *)
(*   GuideSpec  the raw aggregate of buildGlobalGuide over partial guides; *)
(*   BudgetSpec the output budget of summarizeChapterWithContext over the  *)
(*              targets a caller may pass;                                 *)
(*   IdSpec     the output directories that /extract-auto and              *)
(*              /rerun-chapter-from-outputs give to their executions.      *)
(***************************************************************************)
EXTENDS Integers, Sequences, FiniteSets, TLC

VARIABLES
    \* ---- splitByTokensElastic (one call) ----
    text,           \* the document: a sequence of characters
    targetTokens,   \* parameter
    overlapTokens,  \* parameter
    tolerance,      \* parameter, in percent (15 stands for 0.15)
    tokens,         \* enc.encode(text)
    startTok,       \* the loop cursor
    result,         \* chunks pushed so far
    boundaries,     \* {start, end, tokens} pushed so far
    seenToks,       \* cursor values at the head of earlier iterations
    spc,            \* "idle" | "loop" | "done"
    caller,         \* "direct": any arguments | "chapters": those of the chapter split
    earlier,        \* what earlier calls with these arguments returned
    totalTokens,    \* countTokens(bookText, model); 0 before the call
    model,          \* the model identifier given to countTokens
    enc,            \* the encoder in use: its vocabulary, or "none"
    \* ---- the book and its run directory outputs/<processDir> ----
    nGuide,         \* number of guide chunks the book splits into
    nChapters,      \* number of chapter boundaries the book splits into
    bookTooLarge,   \* totalTokensEarly > MAX_BOOK_TOKENS
    fBookComplete,  \* book_complete.txt exists
    fGuideOutput,   \* guide_output_<n>.json, n in 1..MaxGuideChunks
    fGlobalGuide,   \* book_global_guide.json
    fBoundaries,    \* chapter_boundaries.json exists
    fChapter,       \* chapter_<n>_formatted.json, n in 1..MaxChapters
    fBookFinal,     \* book_final.json exists
    fRerunChapter,  \* rerun_<id>/chapter_<n>_formatted.json of the last rerun
    \* ---- the request handler being executed ----
    route,          \* "none" | "extract" | "resume" | "rerun"
    pc,             \* where the handler is
    idx,            \* loop index i / idx (0-based, as in the code)
    attempt,        \* attempt / attemptCap
    parsed,         \* parsed (guide-map, polish)
    parsedCap,      \* parsed (chapter stage)
    maps,           \* maps: the partial guides pushed so far
    guide,          \* the route's guide
    prevChapterFormatted,
    inflight,       \* the oracle call being awaited
    \* ---- history of the current execution ----
    requests,       \* requests accepted so far
    kind,           \* the route of the latest request
    outcome,        \* "running" | "ok" | "nothing" | "error" | "rejected"
    startedCh,      \* chapter indices whose stage was started, in order
    wroteCh,        \* chapter indices whose artifact this execution wrote
    snapshot,       \* fChapter when the execution began
    failedAt,       \* chapter index whose stage exhausted its retries, or -1
    invocations,    \* oracle invocations of the current retry loop
    failures,       \* of which answered without a result
    lastLoop,       \* how the last retry loop ended
    \* ---- request handlers that share one run directory (RaceSpec) ----
    hs,             \* per handler: route, position, chapter index, observations
    \* ---- the prompt of summarizeChapterWithContext and the retry waits ----
    chapterTarget,  \* args.targetTokens of summarizeChapterWithContext; 0 before a call
    effectiveTarget,\* the output budget written into the prompt
    waited,         \* ms slept since the latest attempt of the retry loop ended
    \* ---- the output directories given to executions (IdSpec) ----
    clock,          \* the server's clock, in ticks
    runs            \* the executions started so far: route and output directory

splitVars == <<text, targetTokens, overlapTokens, tolerance, tokens, startTok,
               result, boundaries, seenToks, spc, caller, earlier, totalTokens,
               model, enc>>

dirVars == <<nGuide, nChapters, bookTooLarge, fBookComplete, fGuideOutput,
             fGlobalGuide, fBoundaries, fChapter, fBookFinal, fRerunChapter>>

handlerVars == <<route, pc, idx, attempt, parsed, parsedCap, maps, guide,
                 prevChapterFormatted, inflight>>

historyVars == <<requests, kind, outcome, startedCh, wroteCh, snapshot, failedAt,
                 invocations, failures, lastLoop>>

historyVarsButOutcome == <<requests, kind, startedCh, wroteCh, snapshot, failedAt,
                          invocations, failures, lastLoop>>

pipeVars == <<dirVars, handlerVars, historyVars>>

promptVars == <<chapterTarget, effectiveTarget>>

idVars == <<clock, runs>>

vars == <<splitVars, pipeVars, hs, idVars, promptVars, waited>>

----------------------------------------------------------------------------
(* Bounds of the segmenter model *)

MaxLen == 3

MaxTarget == 3

MaxOverlap == 1

\* "a": an ASCII letter; "u": a lower-case letter outside ASCII (such as
\* e-acute), one UTF-16 code unit and two UTF-8 bytes; " ", ".", "\n".
Letters == {"a", "u"}

Alphabet == Letters \cup {" ", ".", "\n"}

Tolerances == {15, 50}

Texts == UNION {[1..n -> Alphabet] : n \in 0..MaxLen}

----------------------------------------------------------------------------
(* JavaScript helpers *)

Min(a, b) == IF a < b THEN a ELSE b

Max(a, b) == IF a > b THEN a ELSE b

\* Math.round(p / q) for p >= 0, q > 0: floor(p/q + 1/2)
MathRound(p, q) == (2 * p + q) \div (2 * q)

\* String.prototype.slice(a, b) with 0-based, half-open, clamped indices
Slice(s, a, b) ==
    LET lo == Min(Max(a, 0), Len(s))
        hi == Min(Max(b, 0), Len(s))
    IN  IF lo >= hi THEN <<>> ELSE SubSeq(s, lo + 1, hi)

WhiteSpace == {" ", "\n"}

\* String.prototype.trim()
Trim(s) ==
    LET keep == {i \in 1..Len(s) : s[i] \notin WhiteSpace}
    IN  IF keep = {} THEN <<>>
        ELSE SubSeq(s, CHOOSE i \in keep : \A j \in keep : i <= j,
                       CHOOSE i \in keep : \A j \in keep : i >= j)

\* String.prototype.indexOf('\n\n'): the first occurrence
FirstIndexOfParagraph(s) ==
    LET hits == {i \in 1..(Len(s) - 1) : s[i] = "\n" /\ s[i + 1] = "\n"}
    IN  IF hits = {} THEN -1
        ELSE (CHOOSE i \in hits : \A j \in hits : i <= j) - 1

\* String.prototype.lastIndexOf('\n\n'), 0-based, -1 when absent
LastIndexOfParagraph(s) ==
    LET hits == {i \in 1..(Len(s) - 1) : s[i] = "\n" /\ s[i + 1] = "\n"}
    IN  IF hits = {} THEN -1
        ELSE (CHOOSE i \in hits : \A j \in hits : i >= j) - 1

isSentenceEnd(ch) == ch = "."

\* the backwards scan for a sentence end: the 0-based index found, or -1
LastSentenceEnd(s) ==
    LET hits == {i \in 1..Len(s) : isSentenceEnd(s[i])}
    IN  IF hits = {} THEN -1
        ELSE (CHOOSE i \in hits : \A j \in hits : i >= j) - 1

----------------------------------------------------------------------------
(* The tokenizer (tiktoken, o200k_base), restricted to Alphabet.           *)
(* Pre-tokenization follows the encoding's split pattern, alternative by   *)
(* alternative; every piece the pattern yields is one token.               *)

\* first position q >= p with s[q] not in S (Len(s)+1 when the run reaches the end)
RunEnd(s, p, S) ==
    CHOOSE q \in p..(Len(s) + 1) :
        /\ (q = Len(s) + 1 \/ s[q] \notin S)
        /\ \A r \in p..(q - 1) : s[r] \in S

\* length of the piece the split pattern matches at position p (1-based)
PieceLen(s, p) ==
    LET c == s[p]
        n == Len(s)
        nextIs(S) == p + 1 <= n /\ s[p + 1] \in S
        wsEnd == RunEnd(s, p, WhiteSpace)
        nls == {r \in p..(wsEnd - 1) : s[r] = "\n"}
    IN  IF c \in Letters
          THEN RunEnd(s, p, Letters) - p                 \* \p{L}+
        ELSE IF c \in {" ", "."} /\ nextIs(Letters)
          THEN RunEnd(s, p + 1, Letters) - p             \* [^\r\n\p{L}\p{N}]?\p{L}+
        ELSE IF c = "."
          THEN RunEnd(s, RunEnd(s, p, {"."}), {"\n"}) - p  \* [^\s\p{L}\p{N}]+[\r\n]*
        ELSE IF c = " " /\ nextIs({"."})
          THEN RunEnd(s, RunEnd(s, p + 1, {"."}), {"\n"}) - p  \* " "?[^\s\p{L}\p{N}]+[\r\n]*
        ELSE IF nls # {}
          THEN (CHOOSE r \in nls : \A r2 \in nls : r >= r2) - p + 1  \* \s*[\r\n]+
        ELSE IF wsEnd = n + 1
          THEN wsEnd - p                                 \* \s+(?!\S) at the end
        ELSE IF wsEnd - p >= 2
          THEN wsEnd - p - 1                             \* \s+(?!\S) before a word
        ELSE wsEnd - p                                   \* \s+

RECURSIVE EncodeFrom(_, _)
EncodeFrom(s, p) ==
    IF p > Len(s) THEN <<>>
    ELSE LET k == PieceLen(s, p)
         IN  <<SubSeq(s, p, p + k - 1)>> \o EncodeFrom(s, p + k)

\* enc.encode(s): the token sequence, each token the characters it stands for
Encode(s) == EncodeFrom(s, 1)

\* UTF-8 length of one character
Utf8Len(c) == IF c = "u" THEN 2 ELSE 1

RECURSIVE ByteLen(_)
ByteLen(s) == IF s = <<>> THEN 0 ELSE Utf8Len(Head(s)) + ByteLen(Tail(s))

RECURSIVE DecodeLen(_, _)
\* enc.decode(toks.slice(0, k)).length: decode returns the UTF-8 bytes
DecodeLen(toks, k) ==
    IF k <= 0 THEN 0
    ELSE DecodeLen(toks, k - 1) + (IF k <= Len(toks) THEN ByteLen(toks[k]) ELSE 0)

\* the vocabularies of the tokenizer library
Vocabularies == {"o200k_base", "cl100k_base"}

\* A model identifier together with the vocabulary the installed library's
\* table gives for it ("unknown": the table has no entry).  The table of the
\* installed version is not part of the repository, so 'gpt-5-mini' appears
\* both ways.
Models ==
    {[id |-> "gpt-5-mini", vocabulary |-> "o200k_base"],
     [id |-> "gpt-5-mini", vocabulary |-> "unknown"],
     [id |-> "gpt-4", vocabulary |-> "cl100k_base"],
     [id |-> "no-such-model", vocabulary |-> "unknown"]}

\* the identifier splitByTokensElastic and the server pass: 'gpt-5-mini'
SplitModel == [id |-> "gpt-5-mini", vocabulary |-> "o200k_base"]

\* encoding_for_model(model): the encoder of the model's vocabulary, or an
\* exception
encoding_for_model(m) ==
    IF m.vocabulary \in Vocabularies THEN m.vocabulary ELSE "throws"

\* get_encoding(name)
get_encoding(name) == IF name \in Vocabularies THEN name ELSE "throws"

\* a resolution that lets the exception of encoding_for_model escape
getEncoderUncaught(m) == encoding_for_model(m)

\* try { return encoding_for_model(model) } catch { return get_encoding('o200k_base') }
getEncoder(m) ==
    IF encoding_for_model(m) = "throws" THEN get_encoding("o200k_base")
    ELSE encoding_for_model(m)

\* countTokens(text, model), once getEncoder has given the encoder of m: on
\* Alphabet the split patterns of the two vocabularies yield the same
\* pieces, so the count is that of Encode whichever vocabulary m has
countTokens(s, m) == Len(Encode(s))

----------------------------------------------------------------------------
(* computeChapterSegmentationParams, and the trip of the book's text       *)
(* through book_complete.txt                                               *)

MIN_BOOK_TOKENS == 80000

MAX_BOOK_TOKENS == 1200000

MIN_CH_INPUT == 11000

MAX_CH_INPUT == 40000

\* the default of the parameter tolerance, 0.15
DefaultTolerance == 15

\* the default of the parameter targetTokens
DefaultTargetTokens == 6000

\* the default of the parameter overlapTokens
DefaultOverlapTokens == 600

\* the interpolation without the clamp of frac
chapterInputTokensUnclamped(total) ==
    MathRound(
      MIN_CH_INPUT * ((MAX_BOOK_TOKENS - MIN_BOOK_TOKENS) \div 1000)
        + (total - MIN_BOOK_TOKENS) * ((MAX_CH_INPUT - MIN_CH_INPUT) \div 1000),
      (MAX_BOOK_TOKENS - MIN_BOOK_TOKENS) \div 1000)

\* Math.round(MIN_CH_INPUT + frac * (MAX_CH_INPUT - MIN_CH_INPUT)), with
\* frac = clamp((totalTokens - MIN_BOOK_TOKENS) / (MAX_BOOK_TOKENS - MIN_BOOK_TOKENS), 0, 1);
\* the fraction (MAX_CH_INPUT - MIN_CH_INPUT) / (MAX_BOOK_TOKENS - MIN_BOOK_TOKENS)
\* is reduced by 1000
chapterInputTokens(total) ==
    IF total <= MIN_BOOK_TOKENS THEN MIN_CH_INPUT
    ELSE IF total >= MAX_BOOK_TOKENS THEN MAX_CH_INPUT
    ELSE MathRound(
           MIN_CH_INPUT * ((MAX_BOOK_TOKENS - MIN_BOOK_TOKENS) \div 1000)
             + (total - MIN_BOOK_TOKENS) * ((MAX_CH_INPUT - MIN_CH_INPUT) \div 1000),
           (MAX_BOOK_TOKENS - MIN_BOOK_TOKENS) \div 1000)

MinOverlapTokens == 400

MaxOverlapTokens == 2000

\* a tenth of the chunk size, without the clamp
chapterOverlapTokensUnclamped(total) ==
    MathRound(chapterInputTokens(total), 10)

\* Math.round(clamp(chapterInputTokens * 0.1, 400, 2000))
chapterOverlapTokens(total) ==
    Max(MinOverlapTokens,
        Min(MaxOverlapTokens, MathRound(chapterInputTokens(total), 10)))

\* Buffer.from(content.toString(), 'utf-8'): the bytes of each character
RECURSIVE Utf8Encode(_)
Utf8Encode(s) ==
    IF s = <<>> THEN <<>>
    ELSE [k \in 1..Utf8Len(Head(s)) |-> <<Head(s), k>>] \o Utf8Encode(Tail(s))

\* fs.readFile(path, 'utf-8'): one character for each lead byte
RECURSIVE Utf8Decode(_)
Utf8Decode(b) ==
    IF b = <<>> THEN <<>>
    ELSE IF Head(b)[2] = 1 THEN <<Head(b)[1]>> \o Utf8Decode(Tail(b))
    ELSE Utf8Decode(Tail(b))

----------------------------------------------------------------------------
(* splitByTokensElastic: the quantities of one loop iteration, as state    *)
(* functions of the cursor startTok                                        *)

MaxTokensFloor == 100

MinTokensFloor == 50

\* Math.round(targetTokens * tolerance)
toleranceTokens == MathRound(targetTokens * tolerance, 100)

maxTokens == Max(MaxTokensFloor, MathRound(targetTokens * (100 + tolerance), 100))

minTokens == Max(MinTokensFloor, MathRound(targetTokens * (100 - tolerance), 100))

endTarget == Min(Len(tokens), startTok + targetTokens)

endTok == Min(Len(tokens), endTarget + toleranceTokens)

startChar == DecodeLen(tokens, startTok)

maxChar == DecodeLen(tokens, endTok)

windowStartTok == Max(0, endTarget - toleranceTokens)

windowStartChar == DecodeLen(tokens, windowStartTok)

slice == Slice(text, windowStartChar, maxChar)

\* paragraph break first, then sentence end, else the hard ceiling
cutFound ==
    IF LastIndexOfParagraph(slice) # -1
      THEN windowStartChar + LastIndexOfParagraph(slice)
    ELSE IF LastSentenceEnd(slice) # -1
      THEN windowStartChar + LastSentenceEnd(slice) + 1
    ELSE maxChar

bestCut == IF cutFound <= startChar THEN maxChar ELSE cutFound

piece == Trim(Slice(text, startChar, bestCut))

pieceTokens == Len(Encode(piece))

extraEnd == Min(Len(text), bestCut + MathRound(Len(piece), 5))

extended == Slice(text, startChar, extraEnd)

\* Math.round(len * (overlapTokens / Math.max(1, pieceTokens)))
overlapChars(len) == MathRound(len * overlapTokens, Max(1, pieceTokens))

nextStartChar(len) == Max(startChar + len - overlapChars(len), startChar + 1)

\* enc.encode(text.slice(0, nextStartChar)).length
nextStartTok(len) == Len(Encode(Slice(text, 0, nextStartChar(len))))

\* Math.min(tokens.length, startTok + Math.max(1, Math.round(targetTokens * 0.5)))
skipStartTok == Min(Len(tokens), startTok + Max(1, MathRound(targetTokens, 2)))

----------------------------------------------------------------------------
(* splitByTokensElastic: the loop *)


\* The body is a function of the cursor alone, so an iteration entered with a
\* cursor value already seen repeats for ever; such a run is not explored
\* beyond the repeated value.
InLoop == spc = "loop" /\ startTok < Len(tokens) /\ startTok \notin seenToks

splitParams == <<text, targetTokens, overlapTokens, tolerance, tokens, caller,
                 totalTokens, model, enc>>

\* "Protecao contra chunk vazio": advance without recording
SplitEmptyPiece ==
    /\ InLoop
    /\ pieceTokens = 0 \/ Len(piece) = 0
    /\ startTok' = skipStartTok
    /\ seenToks' = seenToks \cup {startTok}
    /\ UNCHANGED <<splitParams, result, boundaries, spc, earlier, pipeVars, hs, idVars, promptVars, waited>>

\* "se ficou curto demais, estende um pouco"
SplitExtend ==
    /\ InLoop
    /\ ~(pieceTokens = 0 \/ Len(piece) = 0)
    /\ pieceTokens < minTokens /\ bestCut < Len(text)
    /\ result' = Append(result, Trim(extended))
    /\ boundaries' = Append(boundaries,
          [start |-> startChar, end |-> extraEnd, tokens |-> Len(Encode(extended))])
    /\ startTok' = nextStartTok(Len(extended))
    /\ seenToks' = seenToks \cup {startTok}
    /\ UNCHANGED <<splitParams, spc, earlier, pipeVars, hs, idVars, promptVars, waited>>

SplitAccept ==
    /\ InLoop
    /\ ~(pieceTokens = 0 \/ Len(piece) = 0)
    /\ ~(pieceTokens < minTokens /\ bestCut < Len(text))
    /\ result' = Append(result, piece)
    /\ boundaries' = Append(boundaries,
          [start |-> startChar, end |-> bestCut, tokens |-> pieceTokens])
    /\ startTok' = nextStartTok(Len(piece))
    /\ seenToks' = seenToks \cup {startTok}
    /\ UNCHANGED <<splitParams, spc, earlier, pipeVars, hs, idVars, promptVars, waited>>

\* while (startTok < tokens.length) fails: return {chunks: result, boundaries}
SplitReturn ==
    /\ spc = "loop"
    /\ startTok >= Len(tokens)
    /\ spc' = "done"
    /\ UNCHANGED <<splitParams, startTok, result, boundaries, seenToks, earlier, pipeVars, hs, idVars, promptVars, waited>>

\* a module that keeps its result arrays between calls
SplitAgainAccumulating ==
    /\ spc = "done" /\ caller = "direct" /\ earlier = <<>>
    /\ earlier' = <<[chunks |-> result, boundaries |-> boundaries]>>
    /\ tokens' = Encode(text)
    /\ startTok' = 0
    /\ seenToks' = {}
    /\ spc' = "loop"
    /\ UNCHANGED <<text, targetTokens, overlapTokens, tolerance, caller, result,
                   boundaries, totalTokens, model, enc, pipeVars, hs, idVars, promptVars, waited>>

\* the function is called once more with the same four arguments: a new
\* encoder, tokens, result, boundaries and startTok
SplitAgain ==
    /\ spc = "done" /\ caller = "direct" /\ earlier = <<>>
    /\ earlier' = <<[chunks |-> result, boundaries |-> boundaries]>>
    /\ tokens' = Encode(text)
    /\ startTok' = 0
    /\ result' = <<>>
    /\ boundaries' = <<>>
    /\ seenToks' = {}
    /\ spc' = "loop"
    /\ UNCHANGED <<text, targetTokens, overlapTokens, tolerance, caller, totalTokens,
                   model, enc, pipeVars, hs, idVars, promptVars, waited>>

\* /resume-extract-auto finds no chapter_boundaries.json: the text is read
\* back from book_complete.txt, the parameters are computed from its token
\* count, the tolerance is the default
SplitResume ==
    /\ spc = "done" /\ caller = "chapters" /\ earlier = <<>>
    /\ earlier' = <<[chunks |-> result, boundaries |-> boundaries]>>
    /\ text' = Utf8Decode(Utf8Encode(text))
    /\ totalTokens' = countTokens(text', model)
    /\ targetTokens' = chapterInputTokens(totalTokens')
    /\ overlapTokens' = chapterOverlapTokens(totalTokens')
    /\ tolerance' = DefaultTolerance
    /\ tokens' = Encode(text')
    /\ startTok' = 0
    /\ result' = <<>>
    /\ boundaries' = <<>>
    /\ seenToks' = {}
    /\ spc' = "loop"
    /\ UNCHANGED <<caller, model, enc, pipeVars, hs, idVars, promptVars, waited>>

SplitNext ==
    \/ SplitEmptyPiece
    \/ SplitExtend
    \/ SplitAccept
    \/ SplitReturn
    \/ SplitAgain
    \/ SplitResume

----------------------------------------------------------------------------
(* The tolerance band of the specification *)

\* round(targetTokens * (1 - tolerance))
bandFloor == MathRound(targetTokens * (100 - tolerance), 100)

\* round(targetTokens * (1 + tolerance))
bandCeiling == MathRound(targetTokens * (100 + tolerance), 100)

Returned == spc = "done"

----------------------------------------------------------------------------
(* Claims about splitByTokensElastic, under SplitSpec *)

\* C1 (coverage): the boundaries returned for a text that is not
\* whitespace-only start at offset 0, each later boundary starts at or
\* before the end of the one before it, and the last one ends at len(text).
C1_Coverage ==
    (Returned /\ Trim(text) # <<>>) =>
        /\ boundaries # <<>>
        /\ boundaries[1].start = 0
        /\ \A i \in 2..Len(boundaries) : boundaries[i].start <= boundaries[i - 1].end
        /\ boundaries[Len(boundaries)].end = Len(text)

\* C2 (budget): every returned chunk but the last has a token count within
\* [round(target*(1-tolerance)), round(target*(1+tolerance))], unless the text
\* remaining from its start has fewer tokens than the floor.
C2_Budget ==
    Returned =>
        \A i \in 1..(Len(boundaries) - 1) :
            countTokens(Slice(text, boundaries[i].start, Len(text)), model) >= bandFloor
                => (bandFloor <= boundaries[i].tokens /\ boundaries[i].tokens <= bandCeiling)

\* C3 (termination): the loop never comes back to a cursor value it has
\* already processed; the body being a function of the cursor, a repeated
\* value means the loop never reaches startTok >= tokens.length.
C3_Terminates == spc = "loop" => startTok \notin seenToks

\* C4 (short document): a document (not whitespace-only) whose token count is
\* below targetTokens*(1-tolerance) is returned as exactly one chunk.
C4_ShortDocumentOneChunk ==
    (Returned /\ Trim(text) # <<>> /\ Len(tokens) * 100 < targetTokens * (100 - tolerance))
        => (Len(result) = 1 /\ Len(boundaries) = 1)

AtLoopHead == spc = "loop" /\ startTok < Len(tokens)

\* C25: an iteration that records a chunk computes a next start character
\* of at least the recorded start + 1 and leaves the cursor startTok
\* strictly greater than it found it.
C25_CursorAdvances ==
    [][(spc = "loop" /\ Len(boundaries') = Len(boundaries) + 1) =>
          /\ nextStartChar(IF pieceTokens < minTokens /\ bestCut < Len(text)
                           THEN Len(extended) ELSE Len(piece)) >= startChar + 1
          /\ startTok' > startTok]_vars

\* the boundaries that reach the end of the text
EndReachers == {k \in 1..Len(boundaries) : boundaries[k].end >= Len(text)}

\* C26: the iterations of a call are at most twice
\* ceil(tokens.length / targetTokens), and after the first chunk that
\* reaches the end of the text at most one more chunk is recorded, however
\* long the overlap region is.
C26_IterationsBounded ==
    /\ Cardinality(seenToks) <= 2 * ((Len(tokens) + targetTokens - 1) \div targetTokens)
    /\ \A k \in EndReachers : Len(boundaries) - k <= 1

\* positions (0-based) of the paragraph breaks that lie in the window
WindowParagraphs ==
    {i \in windowStartChar..(Min(maxChar, Len(text)) - 2) :
        text[i + 1] = "\n" /\ text[i + 2] = "\n"}

\* positions (0-based) of the sentence-terminal characters in the window
WindowSentenceEnds ==
    {i \in windowStartChar..(Min(maxChar, Len(text)) - 1) : text[i + 1] = "."}

SetMax(S) == CHOOSE i \in S : \A j \in S : i >= j

\* C27: the cut is the position of the last paragraph break of the window
\* [windowStartChar, maxChar) if it has one, else the position after its
\* last sentence-terminal character if it has one, else maxChar; a position
\* at or before startChar is replaced by maxChar; so startChar < cut <= maxChar.
C27_CutPoint ==
    AtLoopHead =>
        LET chosen == IF WindowParagraphs # {} THEN SetMax(WindowParagraphs)
                      ELSE IF WindowSentenceEnds # {} THEN SetMax(WindowSentenceEnds) + 1
                      ELSE maxChar
        IN  /\ bestCut = (IF chosen <= startChar THEN maxChar ELSE chosen)
            /\ startChar < bestCut
            /\ bestCut <= maxChar

\* a first chunk recorded with its end at a paragraph break of the text
C27_ChunkCutAtParagraph ==
    /\ boundaries # <<>>
    /\ boundaries[1].start = 0
    /\ boundaries[1].end + 2 <= Len(text)
    /\ text[boundaries[1].end + 1] = "\n"
    /\ text[boundaries[1].end + 2] = "\n"

\* C28: every boundary has start < end <= len(text), and neither the starts
\* nor the ends ever decrease along the sequence.
C28_BoundariesOrdered ==
    /\ \A i \in 1..Len(boundaries) :
          /\ boundaries[i].start < boundaries[i].end
          /\ boundaries[i].end <= Len(text)
    /\ \A i \in 2..Len(boundaries) :
          /\ boundaries[i - 1].start <= boundaries[i].start
          /\ boundaries[i - 1].end <= boundaries[i].end

\* C29: the text two consecutive boundaries share (from the start of the
\* later one to the end of the earlier one) has at most overlapTokens tokens.
C29_OverlapWithinBudget ==
    \A i \in 2..Len(boundaries) :
        countTokens(Slice(text, boundaries[i].start, boundaries[i - 1].end), model)
            <= overlapTokens

\* C30: the overlap in characters is
\* round(len(chunk) * overlapTokens / tokenCount(chunk)) for the chunk that is
\* recorded: the piece in the normal branch, the trimmed extension in the
\* extension branch.
C30_OverlapOfRecordedChunk ==
    (AtLoopHead /\ ~(pieceTokens = 0 \/ Len(piece) = 0)) =>
        IF pieceTokens < minTokens /\ bestCut < Len(text)
        THEN overlapChars(Len(extended))
               = MathRound(Len(Trim(extended)) * overlapTokens,
                           countTokens(Trim(extended), model))
        ELSE overlapChars(Len(piece))
               = MathRound(Len(piece) * overlapTokens, countTokens(piece, model))

\* C37: for every index i the text that /resume-extract-auto and
\* /rerun-chapter-from-outputs cut out of the book,
\* bookText.slice(boundaries[i].start, boundaries[i].end), is the chunk i
\* that /extract-auto gives to the chapter stage.
C37_SliceIsChunk ==
    \A i \in 1..Len(boundaries) :
        i <= Len(result)
          => Slice(text, boundaries[i].start, boundaries[i].end) = result[i]

\* C38: chunks and boundaries have the same length, no chunk is empty, and
\* the tokens of boundary i are the token count of chunk i.
C38_BoundaryTokensOfChunk ==
    /\ Len(result) = Len(boundaries)
    /\ \A i \in 1..Len(result) :
          /\ Len(result[i]) > 0
          /\ boundaries[i].tokens = countTokens(result[i], model)

----------------------------------------------------------------------------
(* The pipeline: bounds, program constants and values *)

MaxGuideChunks == 2

MaxChapters == 2

MaxRequests == 2

MapMaxAttempts == 3

PolishMaxAttempts == 2

ChapterMaxAttempts == 3

\* What one oracle invocation can come back with: the call rejects; the
\* message has no content; the content is not JSON; the content is the JSON
\* literal null; another falsy JSON value (false, 0); a JSON object without
\* the expected fields ({}, []); an object of the expected shape.
Answers == {"throws", "empty", "badjson", "null", "false", "wrongshape", "valid"}

\* the answers that reach the catch block at every call site
Rejected == {"throws", "empty", "badjson"}

\* !parsed is false
Truthy(v) == v \in {"wrongshape", "valid"}

NullChapter == [shape |-> "null", by |-> 0]

UndefinedChapter == [shape |-> "undefined", by |-> 0]

AbsentChapter == [shape |-> "absent", by |-> 0]

\* sanitizeChapterOutput(JSON.parse(content)) throws (ch.content of null)
SanitizeThrows(k) == k = "null"

\* sanitizeChapterOutput(JSON.parse(content)): {title, content}, with
\* title '' and content [] for whatever the answer lacks; "by" tells the
\* outputs of different executions apart
sanitizeChapterOutput(k, r) ==
    [shape |-> IF k = "valid" THEN "valid" ELSE "empty", by |-> r]

MaxHandlers == 2

Handlers == 1..MaxHandlers

\* no request is being served by the handler
IdleHandler == [route |-> "none", pc |-> "idle", idx |-> 0,
                sawPartial |-> FALSE, over |-> FALSE]

NoCall == [site |-> "none", idx |-> 0, prev |-> UndefinedChapter, guide |-> "absent"]

NoLoop == [site |-> "none", invocations |-> 0, failures |-> 0,
           accepted |-> FALSE, thrown |-> FALSE]

\* a scan that forgets the saved chapters and starts over
lastIdxFromStart(ch, n) == 0

\* "Descobre ultimo capitulo salvo continuo": the for loop with fs.access
lastIdxOf(ch, n) ==
    CHOOSE k \in 0..n :
        /\ \A j \in 1..k : ch[j] # AbsentChapter
        /\ (k = n \/ ch[k + 1] = AbsentChapter)

\* "Prev capitulo formatado (se houver)": read, parse, keep if content is an array
readPrevChapter(ch, n) ==
    IF n > 0 /\ ch[n].shape \in {"valid", "empty"} THEN ch[n] ELSE UndefinedChapter

----------------------------------------------------------------------------
(* The pipeline: initial state and the ends of an execution *)

PipeInit ==
    /\ nGuide \in 1..MaxGuideChunks
    /\ nChapters \in 1..MaxChapters
    /\ bookTooLarge \in BOOLEAN
    /\ fBookComplete = FALSE
    /\ fGuideOutput = [n \in 1..MaxGuideChunks |-> "absent"]
    /\ fGlobalGuide = "absent"
    /\ fBoundaries = FALSE
    /\ fChapter = [n \in 1..MaxChapters |-> AbsentChapter]
    /\ fBookFinal = FALSE
    /\ fRerunChapter = [n \in 1..MaxChapters |-> AbsentChapter]
    /\ route = "none"
    /\ pc = "idle"
    /\ idx = 0
    /\ attempt = 0
    /\ parsed = "null"
    /\ parsedCap = NullChapter
    /\ maps = <<>>
    /\ guide = "absent"
    /\ prevChapterFormatted = UndefinedChapter
    /\ inflight = NoCall
    /\ requests = 0
    /\ kind = "none"
    /\ outcome = "none"
    /\ startedCh = <<>>
    /\ wroteCh = {}
    /\ snapshot = [n \in 1..MaxChapters |-> AbsentChapter]
    /\ failedAt = -1
    /\ invocations = 0
    /\ failures = 0
    /\ lastLoop = NoLoop
    \* the segmenter at rest while the pipeline runs
    /\ text = <<>>
    /\ targetTokens = 1
    /\ overlapTokens = 0
    /\ tolerance = 15
    /\ tokens = <<>>
    /\ startTok = 0
    /\ result = <<>>
    /\ boundaries = <<>>
    /\ seenToks = {}
    /\ spc = "idle"
    /\ caller = "direct"
    /\ earlier = <<>>
    /\ totalTokens = 0
    /\ model = SplitModel
    /\ enc = "none"
    /\ hs = [h \in Handlers |-> IdleHandler]
    /\ chapterTarget = 0
    /\ effectiveTarget = 0
    /\ waited = 0
    /\ clock = 0
    /\ runs = <<>>

\* splitByTokensElastic is entered
SplitInit ==
    /\ text \in Texts
    /\ caller \in {"direct", "chapters"}
    /\ IF caller = "direct"
       THEN /\ targetTokens \in 1..MaxTarget
            /\ overlapTokens \in 0..MaxOverlap
            /\ tolerance \in Tolerances
       ELSE /\ targetTokens = chapterInputTokens(countTokens(text, SplitModel))
            /\ overlapTokens = chapterOverlapTokens(countTokens(text, SplitModel))
            /\ tolerance = DefaultTolerance
    /\ totalTokens = countTokens(text, SplitModel)
    /\ model = SplitModel
    /\ enc = getEncoder(SplitModel)
    /\ tokens = Encode(text)
    /\ startTok = 0
    /\ result = <<>>
    /\ boundaries = <<>>
    /\ seenToks = {}
    /\ spc = "loop"
    /\ earlier = <<>>
    \* the pipeline at rest while the segmenter runs
    /\ nGuide = 1
    /\ nChapters = 1
    /\ bookTooLarge = FALSE
    /\ fBookComplete = FALSE
    /\ fGuideOutput = [n \in 1..MaxGuideChunks |-> "absent"]
    /\ fGlobalGuide = "absent"
    /\ fBoundaries = FALSE
    /\ fChapter = [n \in 1..MaxChapters |-> AbsentChapter]
    /\ fBookFinal = FALSE
    /\ fRerunChapter = [n \in 1..MaxChapters |-> AbsentChapter]
    /\ route = "none"
    /\ pc = "idle"
    /\ idx = 0
    /\ attempt = 0
    /\ parsed = "null"
    /\ parsedCap = NullChapter
    /\ maps = <<>>
    /\ guide = "absent"
    /\ prevChapterFormatted = UndefinedChapter
    /\ inflight = NoCall
    /\ requests = 0
    /\ kind = "none"
    /\ outcome = "none"
    /\ startedCh = <<>>
    /\ wroteCh = {}
    /\ snapshot = [n \in 1..MaxChapters |-> AbsentChapter]
    /\ failedAt = -1
    /\ invocations = 0
    /\ failures = 0
    /\ lastLoop = NoLoop
    /\ hs = [h \in Handlers |-> IdleHandler]
    /\ chapterTarget = 0
    /\ effectiveTarget = 0
    /\ waited = 0
    /\ clock = 0
    /\ runs = <<>>

\* a request is accepted: the history of the execution starts afresh
NewExecution ==
    /\ route = "none"
    /\ requests < MaxRequests
    /\ requests' = requests + 1
    /\ startedCh' = <<>>
    /\ wroteCh' = {}
    /\ snapshot' = fChapter
    /\ failedAt' = -1
    /\ invocations' = 0
    /\ failures' = 0
    /\ lastLoop' = NoLoop

\* the handler answers (res.json / res.status(...).json) and its locals die
Respond(o) ==
    /\ outcome' = o
    /\ route' = "none"
    /\ pc' = "idle"
    /\ idx' = 0
    /\ attempt' = 0
    /\ parsed' = "null"
    /\ parsedCap' = NullChapter
    /\ maps' = <<>>
    /\ guide' = "absent"
    /\ prevChapterFormatted' = UndefinedChapter
    /\ inflight' = NoCall

\* an error reaches the route's catch: console.error, res.status(500)
Throw == Respond("error")

bookVars == <<nGuide, nChapters, bookTooLarge>>

----------------------------------------------------------------------------
(* POST /extract-auto: up to the call of buildGlobalGuide *)

\* Here every upload works in a directory of its own (processId is the minute
\* of the request plus the file's name); uploads that share a directory are
\* the subject of RaceSpec below.

\* book_complete.txt and book_size.json are saved, then 413
ExtractTooLarge ==
    /\ NewExecution
    /\ kind' = "extract"
    /\ ~fBookComplete /\ bookTooLarge
    /\ fBookComplete' = TRUE
    /\ outcome' = "rejected"
    /\ UNCHANGED <<bookVars, fGuideOutput, fGlobalGuide, fBoundaries, fChapter,
                   fBookFinal, fRerunChapter, handlerVars, splitVars, hs, idVars, promptVars, waited>>

ExtractStart ==
    /\ NewExecution
    /\ kind' = "extract"
    /\ ~fBookComplete /\ ~bookTooLarge
    /\ fBookComplete' = TRUE
    /\ outcome' = "running"
    /\ route' = "extract"
    /\ pc' = "map" /\ idx' = 0 /\ maps' = <<>>
    /\ UNCHANGED <<bookVars, fGuideOutput, fGlobalGuide, fBoundaries, fChapter,
                   fBookFinal, fRerunChapter, attempt, parsed, parsedCap, guide,
                   prevChapterFormatted, inflight, splitVars, hs, idVars, promptVars, waited>>

----------------------------------------------------------------------------
(* POST /resume-extract-auto: up to buildGlobalGuide or the scan *)

\* a resume that takes a missing book for an empty one and goes on
ResumeWithoutBook ==
    /\ NewExecution
    /\ kind' = "resume"
    /\ ~fBookComplete
    /\ outcome' = "running"
    /\ route' = "resume"
    /\ pc' = "map" /\ idx' = 0 /\ maps' = <<>>
    /\ UNCHANGED <<dirVars, attempt, parsed, parsedCap, guide,
                   prevChapterFormatted, inflight, splitVars, hs, idVars, promptVars, waited>>

\* fs.readFile(book_complete.txt) throws
ResumeNoBook ==
    /\ NewExecution
    /\ kind' = "resume"
    /\ ~fBookComplete
    /\ outcome' = "error"
    /\ UNCHANGED <<dirVars, handlerVars, splitVars, hs, idVars, promptVars, waited>>

\* book_global_guide.json is read and parsed
ResumeWithGuide ==
    /\ NewExecution
    /\ kind' = "resume"
    /\ fBookComplete /\ fGlobalGuide # "absent"
    /\ outcome' = "running"
    /\ route' = "resume"
    /\ guide' = fGlobalGuide
    /\ pc' = "scan"
    /\ UNCHANGED <<dirVars, idx, attempt, parsed, parsedCap, maps,
                   prevChapterFormatted, inflight, splitVars, hs, idVars, promptVars, waited>>

\* the guide cannot be read: it is built as in /extract-auto
ResumeBuildGuide ==
    /\ NewExecution
    /\ kind' = "resume"
    /\ fBookComplete /\ fGlobalGuide = "absent"
    /\ outcome' = "running"
    /\ route' = "resume"
    /\ pc' = "map" /\ idx' = 0 /\ maps' = <<>>
    /\ UNCHANGED <<dirVars, attempt, parsed, parsedCap, guide,
                   prevChapterFormatted, inflight, splitVars, hs, idVars, promptVars, waited>>

\* a resume that goes on to the recomposition when no chapter is pending
ResumeRecomposes ==
    /\ route = "resume" /\ pc = "scan"
    /\ lastIdxOf(fChapter, nChapters) >= nChapters
    /\ fBoundaries' = TRUE
    /\ pc' = "assemble"
    /\ UNCHANGED <<bookVars, fBookComplete, fGuideOutput, fGlobalGuide, fChapter,
                   fBookFinal, fRerunChapter, route, idx, attempt, parsed, parsedCap,
                   maps, guide, prevChapterFormatted, inflight, historyVars,
                   splitVars, hs, idVars, promptVars, waited>>

\* boundaries are read (or regenerated and saved); nothing is pending
ResumeNothingPending ==
    /\ route = "resume" /\ pc = "scan"
    /\ lastIdxOf(fChapter, nChapters) >= nChapters
    /\ fBoundaries' = TRUE
    /\ Respond("nothing")
    /\ UNCHANGED <<bookVars, fBookComplete, fGuideOutput, fGlobalGuide, fChapter,
                   fBookFinal, fRerunChapter, historyVarsButOutcome, splitVars, hs, idVars, promptVars, waited>>

\* boundaries are read (or regenerated and saved); the loop starts at lastIdx
ResumeChapters ==
    /\ route = "resume" /\ pc = "scan"
    /\ lastIdxOf(fChapter, nChapters) < nChapters
    /\ fBoundaries' = TRUE
    /\ idx' = lastIdxOf(fChapter, nChapters)
    /\ prevChapterFormatted' = readPrevChapter(fChapter, lastIdxOf(fChapter, nChapters))
    /\ pc' = "chapter"
    /\ UNCHANGED <<bookVars, fBookComplete, fGuideOutput, fGlobalGuide, fChapter,
                   fBookFinal, fRerunChapter, route, attempt, parsed, parsedCap,
                   maps, guide, inflight, historyVars, splitVars, hs, idVars, promptVars, waited>>

----------------------------------------------------------------------------
(* POST /rerun-chapter-from-outputs *)

RerunInputsPresent == fBookComplete /\ fBoundaries /\ fGlobalGuide # "absent"

\* one of the three readFile calls throws
RerunMissing ==
    /\ NewExecution
    /\ kind' = "rerun"
    /\ ~RerunInputsPresent
    /\ outcome' = "error"
    /\ UNCHANGED <<dirVars, handlerVars, splitVars, hs, idVars, promptVars, waited>>

\* chapterIndex fora do intervalo: 400
RerunOutOfRange(c) ==
    /\ NewExecution
    /\ kind' = "rerun"
    /\ RerunInputsPresent
    /\ c >= nChapters
    /\ outcome' = "rejected"
    /\ UNCHANGED <<dirVars, handlerVars, splitVars, hs, idVars, promptVars, waited>>

\* a fresh rerun_<id> directory; the previous chapter is read from the source run
RerunStart(c) ==
    /\ NewExecution
    /\ kind' = "rerun"
    /\ RerunInputsPresent
    /\ c < nChapters
    /\ outcome' = "running"
    /\ route' = "rerun"
    /\ guide' = fGlobalGuide
    /\ idx' = c
    /\ prevChapterFormatted' = readPrevChapter(fChapter, c)
    /\ fRerunChapter' = [n \in 1..MaxChapters |-> AbsentChapter]
    /\ pc' = "chapter"
    /\ UNCHANGED <<bookVars, fBookComplete, fGuideOutput, fGlobalGuide, fBoundaries,
                   fChapter, fBookFinal, attempt, parsed, parsedCap, maps, inflight,
                   splitVars, hs, idVars, promptVars, waited>>

----------------------------------------------------------------------------
(* buildGlobalGuide: the map over the guide chunks *)

InGuide == route \in {"extract", "resume"}

dirButGuideOutput == <<bookVars, fBookComplete, fGlobalGuide, fBoundaries, fChapter,
                       fBookFinal, fRerunChapter>>

\* the step of the wait between attempts, in ms
BaseDelayMs == 1000

MapCall == [site |-> "map", idx |-> idx, prev |-> UndefinedChapter, guide |-> "absent"]

LoopEnd(site, thrown, ok) ==
    [site |-> site, invocations |-> invocations, failures |-> failures,
     accepted |-> ok, thrown |-> thrown]

\* guide_output_XX.json exists and parses: it is pushed and the chunk is skipped
MapReuse ==
    /\ InGuide /\ pc = "map" /\ idx < nGuide
    /\ fGuideOutput[idx + 1] # "absent"
    /\ maps' = Append(maps, fGuideOutput[idx + 1])
    /\ idx' = idx + 1
    /\ UNCHANGED <<dirVars, route, pc, attempt, parsed, parsedCap, guide,
                   prevChapterFormatted, inflight, historyVars, splitVars, hs, idVars, promptVars, waited>>

\* a loop that asks the oracle for every chunk, stored partial or not
MapBeginAlways ==
    /\ InGuide /\ pc = "map" /\ idx < nGuide
    /\ attempt' = 0
    /\ parsed' = "null"
    /\ invocations' = 0
    /\ failures' = 0
    /\ waited' = 0
    /\ pc' = "mapTry"
    /\ UNCHANGED <<dirVars, route, idx, parsedCap, maps, guide, prevChapterFormatted,
                   inflight, requests, kind, outcome, startedCh, wroteCh, snapshot,
                   failedAt, lastLoop, splitVars, hs, idVars, promptVars>>

\* let attempt = 0; let parsed = null
MapBegin ==
    /\ InGuide /\ pc = "map" /\ idx < nGuide
    /\ fGuideOutput[idx + 1] = "absent"
    /\ attempt' = 0
    /\ parsed' = "null"
    /\ invocations' = 0
    /\ failures' = 0
    /\ pc' = "mapTry"
    /\ waited' = 0
    /\ UNCHANGED <<dirVars, route, idx, parsedCap, maps, guide, prevChapterFormatted,
                   inflight, requests, kind, outcome, startedCh, wroteCh, snapshot,
                   failedAt, lastLoop, splitVars, hs, idVars, promptVars>>

\* a map that sends the request of a chunk and moves on to the next chunk
MapIssueUnawaited ==
    /\ InGuide /\ pc = "mapTry"
    /\ attempt < MapMaxAttempts /\ ~Truthy(parsed)
    /\ inflight' = MapCall
    /\ invocations' = invocations + 1
    /\ maps' = Append(maps, "valid")
    /\ idx' = idx + 1
    /\ pc' = "map"
    /\ UNCHANGED <<dirVars, route, attempt, parsed, parsedCap, guide,
                   prevChapterFormatted, requests, kind, outcome, startedCh, wroteCh,
                   snapshot, failedAt, failures, lastLoop, splitVars, hs, idVars, promptVars, waited>>

\* while (attempt < maxAttempts && !parsed): attempt++, the request is sent
MapIssue ==
    /\ InGuide /\ pc = "mapTry"
    /\ attempt < MapMaxAttempts /\ ~Truthy(parsed)
    /\ attempt' = attempt + 1
    /\ inflight' = MapCall
    /\ invocations' = invocations + 1
    /\ pc' = "mapAwait"
    /\ UNCHANGED <<dirVars, route, idx, parsed, parsedCap, maps, guide,
                   prevChapterFormatted, requests, kind, outcome, startedCh, wroteCh,
                   snapshot, failedAt, failures, lastLoop, splitVars, hs, idVars, promptVars, waited>>

\* the while condition is false: maps.push(parsed!)
MapPush ==
    /\ InGuide /\ pc = "mapTry"
    /\ ~(attempt < MapMaxAttempts /\ ~Truthy(parsed))
    /\ maps' = Append(maps, parsed)
    /\ idx' = idx + 1
    /\ lastLoop' = LoopEnd("map", FALSE, Truthy(parsed))
    /\ pc' = "map"
    /\ UNCHANGED <<dirVars, route, attempt, parsed, parsedCap, guide,
                   prevChapterFormatted, inflight, requests, kind, outcome, startedCh,
                   wroteCh, snapshot, failedAt, invocations, failures, splitVars, hs, idVars, promptVars, waited>>

\* catch (e) with attempt < maxAttempts: wait 1000 * attempt, loop again
MapRetry(k) ==
    /\ InGuide /\ pc = "mapAwait"
    /\ k \in Rejected
    /\ attempt < MapMaxAttempts
    /\ failures' = failures + 1
    /\ inflight' = NoCall
    /\ pc' = "mapTry"
    /\ waited' = BaseDelayMs * attempt
    /\ UNCHANGED <<dirVars, route, idx, attempt, parsed, parsedCap, maps, guide,
                   prevChapterFormatted, requests, kind, outcome, startedCh, wroteCh,
                   snapshot, failedAt, invocations, lastLoop, splitVars, hs, idVars, promptVars>>

\* catch (e) with attempt >= maxAttempts: throw e
MapThrow(k) ==
    /\ InGuide /\ pc = "mapAwait"
    /\ k \in Rejected
    /\ attempt >= MapMaxAttempts
    /\ failures' = failures + 1
    /\ lastLoop' = [LoopEnd("map", TRUE, FALSE) EXCEPT !.failures = failures + 1]
    /\ Throw
    /\ waited' = 0
    /\ UNCHANGED <<dirVars, requests, kind, startedCh, wroteCh, snapshot, failedAt,
                   invocations, splitVars, hs, idVars, promptVars>>

\* parsed = JSON.parse(content); guide_output_XX.json is saved
MapParsed(k) ==
    /\ InGuide /\ pc = "mapAwait"
    /\ k \notin Rejected
    /\ parsed' = k
    /\ fGuideOutput' = [fGuideOutput EXCEPT ![idx + 1] = k]
    /\ failures' = IF Truthy(k) THEN failures ELSE failures + 1
    /\ inflight' = NoCall
    /\ pc' = "mapTry"
    /\ waited' = 0
    /\ UNCHANGED <<dirButGuideOutput, route, idx, attempt, parsedCap, maps, guide,
                   prevChapterFormatted, requests, kind, outcome, startedCh, wroteCh,
                   snapshot, failedAt, invocations, lastLoop, splitVars, hs, idVars, promptVars>>

\* the for loop over the chunks is over
MapEnd ==
    /\ InGuide /\ pc = "map" /\ idx >= nGuide
    /\ pc' = "aggregate"
    /\ UNCHANGED <<dirVars, route, idx, attempt, parsed, parsedCap, maps, guide,
                   prevChapterFormatted, inflight, historyVars, splitVars, hs, idVars, promptVars, waited>>

----------------------------------------------------------------------------
(* buildGlobalGuide: the reduce, and polishGlobalGuide *)

\* maps.flatMap((m) => m.characters || []) reads a property of null
AggregateThrows ==
    /\ InGuide /\ pc = "aggregate"
    /\ \E j \in 1..Len(maps) : maps[j] = "null"
    /\ Throw
    /\ UNCHANGED <<dirVars, historyVarsButOutcome, splitVars, hs, idVars, promptVars, waited>>

\* every map has properties: book_global_guide_raw.json, then the polish call
AggregateMaps ==
    /\ InGuide /\ pc = "aggregate"
    /\ \A j \in 1..Len(maps) : maps[j] # "null"
    /\ attempt' = 0
    /\ parsed' = "null"
    /\ invocations' = 0
    /\ failures' = 0
    /\ pc' = "polishTry"
    /\ UNCHANGED <<dirVars, route, idx, parsedCap, maps, guide, prevChapterFormatted,
                   inflight, requests, kind, outcome, startedCh, wroteCh, snapshot,
                   failedAt, lastLoop, splitVars, hs, idVars, promptVars, waited>>

PolishCall == [site |-> "polish", idx |-> 0, prev |-> UndefinedChapter, guide |-> "absent"]

PolishIssue ==
    /\ InGuide /\ pc = "polishTry"
    /\ attempt < PolishMaxAttempts /\ ~Truthy(parsed)
    /\ attempt' = attempt + 1
    /\ inflight' = PolishCall
    /\ invocations' = invocations + 1
    /\ pc' = "polishAwait"
    /\ UNCHANGED <<dirVars, route, idx, parsed, parsedCap, maps, guide,
                   prevChapterFormatted, requests, kind, outcome, startedCh, wroteCh,
                   snapshot, failedAt, failures, lastLoop, splitVars, hs, idVars, promptVars, waited>>

PolishRetry(k) ==
    /\ InGuide /\ pc = "polishAwait"
    /\ k \in Rejected
    /\ attempt < PolishMaxAttempts
    /\ failures' = failures + 1
    /\ inflight' = NoCall
    /\ pc' = "polishTry"
    /\ waited' = BaseDelayMs * attempt
    /\ UNCHANGED <<dirVars, route, idx, attempt, parsed, parsedCap, maps, guide,
                   prevChapterFormatted, requests, kind, outcome, startedCh, wroteCh,
                   snapshot, failedAt, invocations, lastLoop, splitVars, hs, idVars, promptVars>>

PolishThrow(k) ==
    /\ InGuide /\ pc = "polishAwait"
    /\ k \in Rejected
    /\ attempt >= PolishMaxAttempts
    /\ failures' = failures + 1
    /\ lastLoop' = [LoopEnd("polish", TRUE, FALSE) EXCEPT !.failures = failures + 1]
    /\ Throw
    /\ waited' = 0
    /\ UNCHANGED <<dirVars, requests, kind, startedCh, wroteCh, snapshot, failedAt,
                   invocations, splitVars, hs, idVars, promptVars>>

\* parsed = JSON.parse(content); book_global_guide_polished_output.json is saved
PolishParsed(k) ==
    /\ InGuide /\ pc = "polishAwait"
    /\ k \notin Rejected
    /\ parsed' = k
    /\ failures' = IF Truthy(k) THEN failures ELSE failures + 1
    /\ inflight' = NoCall
    /\ pc' = "polishTry"
    /\ waited' = 0
    /\ UNCHANGED <<dirVars, route, idx, attempt, parsedCap, maps, guide,
                   prevChapterFormatted, requests, kind, outcome, startedCh, wroteCh,
                   snapshot, failedAt, invocations, lastLoop, splitVars, hs, idVars, promptVars>>

\* return parsed!; book_global_guide.json is saved; /extract-auto goes on to
\* save chapter_boundaries.json and enter the chapter loop, /resume-extract-auto
\* to read the boundaries
PolishReturn ==
    /\ InGuide /\ pc = "polishTry"
    /\ ~(attempt < PolishMaxAttempts /\ ~Truthy(parsed))
    /\ guide' = parsed
    /\ fGlobalGuide' = parsed
    /\ lastLoop' = LoopEnd("polish", FALSE, Truthy(parsed))
    /\ fBoundaries' = IF route = "extract" THEN TRUE ELSE fBoundaries
    /\ pc' = IF route = "extract" THEN "chapter" ELSE "scan"
    /\ idx' = 0
    /\ prevChapterFormatted' = UndefinedChapter
    /\ UNCHANGED <<bookVars, fBookComplete, fGuideOutput, fChapter, fBookFinal,
                   fRerunChapter, route, attempt, parsed, parsedCap, maps, inflight,
                   requests, kind, outcome, startedCh, wroteCh, snapshot, failedAt,
                   invocations, failures, splitVars, hs, idVars, promptVars, waited>>

----------------------------------------------------------------------------
(* The chapter loop and summarizeChapterWithContext *)

InChapters == route \in {"extract", "resume", "rerun"}

ChapterCall == [site |-> "chapter", idx |-> idx, prev |-> prevChapterFormatted,
                guide |-> guide]

\* for (let i = ...; i < boundaries.length; i++): the call is entered,
\* let attemptCap = 0; let parsed = null
ChapterBegin ==
    /\ InChapters /\ pc = "chapter" /\ idx < nChapters
    /\ attempt' = 0
    /\ parsedCap' = NullChapter
    /\ invocations' = 0
    /\ failures' = 0
    /\ pc' = "chapterTry"
    /\ waited' = 0
    /\ UNCHANGED <<dirVars, route, idx, parsed, maps, guide, prevChapterFormatted,
                   inflight, requests, kind, outcome, startedCh, wroteCh, snapshot,
                   failedAt, lastLoop, splitVars, hs, idVars, promptVars>>

\* while (attemptCap < maxAttemptsCap && !parsed): attemptCap++, the request is sent
ChapterIssue ==
    /\ InChapters /\ pc = "chapterTry"
    /\ attempt < ChapterMaxAttempts /\ parsedCap = NullChapter
    /\ attempt' = attempt + 1
    /\ inflight' = ChapterCall
    /\ invocations' = invocations + 1
    /\ startedCh' = IF attempt = 0 THEN Append(startedCh, idx) ELSE startedCh
    /\ pc' = "chapterAwait"
    /\ UNCHANGED <<dirVars, route, idx, parsed, parsedCap, maps, guide,
                   prevChapterFormatted, requests, kind, outcome, wroteCh, snapshot,
                   failedAt, failures, lastLoop, splitVars, hs, idVars, promptVars, waited>>

\* the answer reaches the catch block
ChapterFails(k) == k \in Rejected \/ SanitizeThrows(k)

\* catch (e) with attemptCap < maxAttemptsCap: wait, loop again
ChapterRetry(k) ==
    /\ InChapters /\ pc = "chapterAwait"
    /\ ChapterFails(k)
    /\ attempt < ChapterMaxAttempts
    /\ failures' = failures + 1
    /\ inflight' = NoCall
    /\ pc' = "chapterTry"
    /\ waited' = BaseDelayMs * attempt
    /\ UNCHANGED <<dirVars, route, idx, attempt, parsed, parsedCap, maps, guide,
                   prevChapterFormatted, requests, kind, outcome, startedCh, wroteCh,
                   snapshot, failedAt, invocations, lastLoop, splitVars, hs, idVars, promptVars>>

\* a catch that logs the exhausted chapter and lets the loop go on
ChapterSkipped(k) ==
    /\ InChapters /\ pc = "chapterAwait"
    /\ ChapterFails(k)
    /\ attempt >= ChapterMaxAttempts
    /\ failures' = failures + 1
    /\ failedAt' = idx
    /\ idx' = idx + 1
    /\ inflight' = NoCall
    /\ pc' = "chapter"
    /\ waited' = 0
    /\ UNCHANGED <<dirVars, route, attempt, parsed, parsedCap, maps, guide,
                   prevChapterFormatted, requests, kind, outcome, startedCh, wroteCh,
                   snapshot, invocations, lastLoop, splitVars, hs, idVars, promptVars>>

\* catch (e) with attemptCap >= maxAttemptsCap: throw e, up to the route's catch
ChapterExhausted(k) ==
    /\ InChapters /\ pc = "chapterAwait"
    /\ ChapterFails(k)
    /\ attempt >= ChapterMaxAttempts
    /\ failures' = failures + 1
    /\ failedAt' = idx
    /\ lastLoop' = [LoopEnd("chapter", TRUE, FALSE) EXCEPT !.failures = failures + 1]
    /\ Throw
    /\ waited' = 0
    /\ UNCHANGED <<dirVars, requests, kind, startedCh, wroteCh, snapshot, invocations,
                   splitVars, hs, idVars, promptVars>>

\* parsed = sanitizeChapterOutput(JSON.parse(content))
ChapterParsed(k) ==
    /\ InChapters /\ pc = "chapterAwait"
    /\ ~ChapterFails(k)
    /\ parsedCap' = sanitizeChapterOutput(k, requests)
    /\ inflight' = NoCall
    /\ pc' = "chapterTry"
    /\ waited' = 0
    /\ UNCHANGED <<dirVars, route, idx, attempt, parsed, maps, guide,
                   prevChapterFormatted, historyVars, splitVars, hs, idVars, promptVars>>

\* the while condition is false
ChapterLoopOver == ~(attempt < ChapterMaxAttempts /\ parsedCap = NullChapter)

\* a loop that keeps the chapter in memory only and never saves it
ChapterSaveUnpersisted ==
    /\ route \in {"extract", "resume"} /\ pc = "chapterTry"
    /\ ChapterLoopOver
    /\ parsedCap # NullChapter
    /\ prevChapterFormatted' = parsedCap
    /\ idx' = idx + 1
    /\ lastLoop' = LoopEnd("chapter", FALSE, TRUE)
    /\ pc' = "chapter"
    /\ UNCHANGED <<dirVars, route, attempt, parsed, parsedCap, maps, guide, inflight,
                   requests, kind, outcome, startedCh, wroteCh, snapshot, failedAt,
                   invocations, failures, splitVars, hs, idVars, promptVars, waited>>

\* return parsed (or throw when there is none); the loop of /extract-auto and
\* /resume-extract-auto keeps it as the previous chapter and saves
\* chapter_XX_formatted.json
ChapterSave ==
    /\ route \in {"extract", "resume"} /\ pc = "chapterTry"
    /\ ChapterLoopOver
    /\ IF parsedCap = NullChapter
       THEN /\ failedAt' = idx
            /\ lastLoop' = LoopEnd("chapter", TRUE, FALSE)
            /\ Throw
            /\ UNCHANGED <<dirVars, wroteCh>>
       ELSE /\ prevChapterFormatted' = parsedCap
            /\ fChapter' = [fChapter EXCEPT ![idx + 1] = parsedCap]
            /\ wroteCh' = wroteCh \cup {idx}
            /\ idx' = idx + 1
            /\ lastLoop' = LoopEnd("chapter", FALSE, TRUE)
            /\ pc' = "chapter"
            /\ UNCHANGED <<bookVars, fBookComplete, fGuideOutput, fGlobalGuide,
                           fBoundaries, fBookFinal, fRerunChapter, route, attempt,
                           parsed, parsedCap, maps, guide, inflight, outcome,
                           failedAt>>
    /\ UNCHANGED <<requests, kind, startedCh, snapshot, invocations, failures, splitVars, hs, idVars, promptVars, waited>>

\* a rerun that saves the chapter over the one of the source run
RerunSaveInPlace ==
    /\ route = "rerun" /\ pc = "chapterTry"
    /\ ChapterLoopOver
    /\ parsedCap # NullChapter
    /\ fChapter' = [fChapter EXCEPT ![idx + 1] = parsedCap]
    /\ lastLoop' = LoopEnd("chapter", FALSE, TRUE)
    /\ Respond("ok")
    /\ UNCHANGED <<bookVars, fBookComplete, fGuideOutput, fGlobalGuide, fBoundaries,
                   fBookFinal, fRerunChapter, requests, kind, startedCh, wroteCh,
                   snapshot, failedAt, invocations, failures, splitVars, hs, idVars, promptVars, waited>>

\* /rerun-chapter-from-outputs saves the chapter and a one-chapter book_final
\* in the rerun directory and answers
RerunSave ==
    /\ route = "rerun" /\ pc = "chapterTry"
    /\ ChapterLoopOver
    /\ IF parsedCap = NullChapter
       THEN /\ failedAt' = idx
            /\ lastLoop' = LoopEnd("chapter", TRUE, FALSE)
            /\ Throw
            /\ UNCHANGED fRerunChapter
       ELSE /\ fRerunChapter' = [fRerunChapter EXCEPT ![idx + 1] = parsedCap]
            /\ lastLoop' = LoopEnd("chapter", FALSE, TRUE)
            /\ Respond("ok")
            /\ UNCHANGED failedAt
    /\ UNCHANGED <<bookVars, fBookComplete, fGuideOutput, fGlobalGuide, fBoundaries,
                   fChapter, fBookFinal, requests, kind, startedCh, wroteCh, snapshot,
                   invocations, failures, splitVars, hs, idVars, promptVars, waited>>

\* the for loop over the chapters is over
ChapterLoopEnd ==
    /\ route \in {"extract", "resume"} /\ pc = "chapter" /\ idx >= nChapters
    /\ pc' = "assemble"
    /\ UNCHANGED <<dirVars, route, idx, attempt, parsed, parsedCap, maps, guide,
                   prevChapterFormatted, inflight, historyVars, splitVars, hs, idVars, promptVars, waited>>

\* metadata and categories are generated, book_final.json is saved
Assemble ==
    /\ route \in {"extract", "resume"} /\ pc = "assemble"
    /\ fBookFinal' = TRUE
    /\ Respond("ok")
    /\ UNCHANGED <<bookVars, fBookComplete, fGuideOutput, fGlobalGuide, fBoundaries,
                   fChapter, fRerunChapter, historyVarsButOutcome, splitVars, hs, idVars, promptVars, waited>>

\* generateMetadata or selectCategories throws
AssembleThrows ==
    /\ route \in {"extract", "resume"} /\ pc = "assemble"
    /\ Throw
    /\ UNCHANGED <<dirVars, historyVarsButOutcome, splitVars, hs, idVars, promptVars, waited>>

----------------------------------------------------------------------------
(* Requests that share one run directory. server.ts holds no lock and no   *)
(* registry of runs: each request is served by its own invocation of the   *)
(* async handler, and the invocations interleave at every await.           *)
(* /resume-extract-auto takes processDir from the request;                 *)
(* /extract-auto works in generateProcessId() plus the uploaded file's     *)
(* name, which is the same directory for the same file within one minute.  *)
(* One step here is the stretch of a handler from one chapter-level await  *)
(* to the next; the oracle's retries and the guide build are those of Spec *)
(* and are taken here in their successful outcome.                         *)

\* everything the handlers of RaceSpec leave alone
raceFrame == <<splitVars, handlerVars, historyVars, bookVars, fGuideOutput,
               fRerunChapter, idVars, promptVars, waited>>

Active(h) == hs[h].route # "none"

\* /extract-auto up to the chapter loop: book_complete.txt, the guide and
\* chapter_boundaries.json are saved, the loop starts at i = 0
RaceExtractAccept(h) ==
    /\ ~Active(h)
    /\ fBookComplete' = TRUE
    /\ fGlobalGuide' = "valid"
    /\ fBoundaries' = TRUE
    /\ hs' = [hs EXCEPT ![h] = [IdleHandler EXCEPT !.route = "extract", !.pc = "call"]]
    /\ UNCHANGED <<fChapter, fBookFinal, raceFrame>>

\* /resume-extract-auto up to the chapter loop: the files are read, the scan
\* with fs.access finds lastIdx, the loop starts at idx = lastIdx; a file that
\* exists with part of its content counts in the scan
RaceResumeAccept(h) ==
    /\ ~Active(h)
    /\ fBookComplete /\ fGlobalGuide # "absent"
    /\ lastIdxOf(fChapter, nChapters) < nChapters
    /\ fBoundaries' = TRUE
    /\ hs' = [hs EXCEPT ![h] =
          [route |-> "resume", pc |-> "call", idx |-> lastIdxOf(fChapter, nChapters),
           sawPartial |-> \E j \in 1..lastIdxOf(fChapter, nChapters) :
                              fChapter[j].shape = "partial",
           over |-> FALSE]]
    /\ UNCHANGED <<fBookComplete, fGlobalGuide, fChapter, fBookFinal, raceFrame>>

\* /resume-extract-auto: "Nada a retomar", every chapter file exists
RaceResumeNothing(h) ==
    /\ ~Active(h)
    /\ fBookComplete /\ fGlobalGuide # "absent"
    /\ lastIdxOf(fChapter, nChapters) >= nChapters
    /\ fBoundaries' = TRUE
    /\ UNCHANGED <<hs, fBookComplete, fGlobalGuide, fChapter, fBookFinal, raceFrame>>

\* summarizeChapterWithContext returns a chapter
RaceChapterAnswer(h) ==
    /\ Active(h) /\ hs[h].pc = "call"
    /\ hs' = [hs EXCEPT ![h].pc = "write"]
    /\ UNCHANGED <<fBookComplete, fGlobalGuide, fBoundaries, fChapter, fBookFinal,
                   raceFrame>>

\* summarizeChapterWithContext throws: the route's catch answers 500
RaceChapterFails(h) ==
    /\ Active(h) /\ hs[h].pc = "call"
    /\ hs' = [hs EXCEPT ![h] = IdleHandler]
    /\ UNCHANGED <<fBookComplete, fGlobalGuide, fBoundaries, fChapter, fBookFinal,
                   raceFrame>>

\* saveToFile: fs.writeFile opens chapter_<idx+1>_formatted.json, creating or
\* truncating it; from here the file exists with part of its content
RaceWriteOpen(h) ==
    /\ Active(h) /\ hs[h].pc = "write"
    /\ fChapter' = [fChapter EXCEPT ![hs[h].idx + 1] = [shape |-> "partial", by |-> h]]
    /\ hs' = [hs EXCEPT ![h].pc = "writing",
                        ![h].over = fChapter[hs[h].idx + 1].shape \in {"valid", "empty"}]
    /\ UNCHANGED <<fBookComplete, fGlobalGuide, fBoundaries, fBookFinal, raceFrame>>

\* fs.writeFile resolves: the content is complete; the loop goes on
RaceWriteDone(h) ==
    /\ Active(h) /\ hs[h].pc = "writing"
    /\ fChapter' = [fChapter EXCEPT ![hs[h].idx + 1] = [shape |-> "valid", by |-> h]]
    /\ hs' = [hs EXCEPT ![h].idx = hs[h].idx + 1,
                        ![h].over = FALSE,
                        ![h].pc = IF hs[h].idx + 1 < nChapters THEN "call" ELSE "recompose"]
    /\ UNCHANGED <<fBookComplete, fGlobalGuide, fBoundaries, fBookFinal, raceFrame>>

\* the chapters of the book are put together (/resume-extract-auto reads and
\* parses every chapter file) and book_final.json is saved
RaceFinish(h) ==
    /\ Active(h) /\ hs[h].pc = "recompose"
    /\ hs[h].route = "resume" => \A j \in 1..nChapters : fChapter[j].shape = "valid"
    /\ fBookFinal' = TRUE
    /\ hs' = [hs EXCEPT ![h] = IdleHandler]
    /\ UNCHANGED <<fBookComplete, fGlobalGuide, fBoundaries, fChapter, raceFrame>>

\* /resume-extract-auto: JSON.parse of a chapter file with part of its
\* content throws, the route's catch answers 500
RaceRecomposeThrows(h) ==
    /\ Active(h) /\ hs[h].pc = "recompose"
    /\ hs[h].route = "resume"
    /\ \E j \in 1..nChapters : fChapter[j].shape # "valid"
    /\ hs' = [hs EXCEPT ![h] = [IdleHandler EXCEPT !.sawPartial = TRUE]]
    /\ UNCHANGED <<fBookComplete, fGlobalGuide, fBoundaries, fChapter, fBookFinal,
                   raceFrame>>

\* the server process dies: its handlers are gone, the files stay as they are
RaceCrash ==
    /\ \E h \in Handlers : Active(h)
    /\ hs' = [h \in Handlers |-> IdleHandler]
    /\ UNCHANGED <<fBookComplete, fGlobalGuide, fBoundaries, fChapter, fBookFinal,
                   raceFrame>>

RaceNext ==
    \/ \E h \in Handlers : RaceExtractAccept(h)
    \/ \E h \in Handlers : RaceResumeAccept(h)
    \/ \E h \in Handlers : RaceResumeNothing(h)
    \/ \E h \in Handlers : RaceChapterAnswer(h)
    \/ \E h \in Handlers : RaceChapterFails(h)
    \/ \E h \in Handlers : RaceWriteOpen(h)
    \/ \E h \in Handlers : RaceWriteDone(h)
    \/ \E h \in Handlers : RaceFinish(h)
    \/ \E h \in Handlers : RaceRecomposeThrows(h)
    \/ RaceCrash

----------------------------------------------------------------------------
(* The two specifications *)

PipeNext ==
    \/ ExtractTooLarge
    \/ ExtractStart
    \/ ResumeNoBook
    \/ ResumeWithGuide
    \/ ResumeBuildGuide
    \/ ResumeNothingPending
    \/ ResumeChapters
    \/ RerunMissing
    \/ \E c \in 0..MaxChapters : RerunOutOfRange(c)
    \/ \E c \in 0..MaxChapters : RerunStart(c)
    \/ MapReuse
    \/ MapBegin
    \/ MapIssue
    \/ MapPush
    \/ \E k \in Answers : MapRetry(k)
    \/ \E k \in Answers : MapThrow(k)
    \/ \E k \in Answers : MapParsed(k)
    \/ MapEnd
    \/ AggregateThrows
    \/ AggregateMaps
    \/ PolishIssue
    \/ \E k \in Answers : PolishRetry(k)
    \/ \E k \in Answers : PolishThrow(k)
    \/ \E k \in Answers : PolishParsed(k)
    \/ PolishReturn
    \/ ChapterBegin
    \/ ChapterIssue
    \/ \E k \in Answers : ChapterRetry(k)
    \/ \E k \in Answers : ChapterExhausted(k)
    \/ \E k \in Answers : ChapterParsed(k)
    \/ ChapterSave
    \/ RerunSave
    \/ ChapterLoopEnd
    \/ Assemble
    \/ AssembleThrows

Spec == PipeInit /\ [][PipeNext]_vars

SplitSpec == SplitInit /\ [][SplitNext]_vars

\* a book, no run directory yet, no request being served
RaceInit ==
    /\ nGuide = 1
    /\ nChapters \in 1..MaxChapters
    /\ bookTooLarge = FALSE
    /\ fBookComplete = FALSE
    /\ fGuideOutput = [n \in 1..MaxGuideChunks |-> "absent"]
    /\ fGlobalGuide = "absent"
    /\ fBoundaries = FALSE
    /\ fChapter = [n \in 1..MaxChapters |-> AbsentChapter]
    /\ fBookFinal = FALSE
    /\ fRerunChapter = [n \in 1..MaxChapters |-> AbsentChapter]
    /\ route = "none"
    /\ pc = "idle"
    /\ idx = 0
    /\ attempt = 0
    /\ parsed = "null"
    /\ parsedCap = NullChapter
    /\ maps = <<>>
    /\ guide = "absent"
    /\ prevChapterFormatted = UndefinedChapter
    /\ inflight = NoCall
    /\ requests = 0
    /\ kind = "none"
    /\ outcome = "none"
    /\ startedCh = <<>>
    /\ wroteCh = {}
    /\ snapshot = [n \in 1..MaxChapters |-> AbsentChapter]
    /\ failedAt = -1
    /\ invocations = 0
    /\ failures = 0
    /\ lastLoop = NoLoop
    \* the segmenter at rest while the pipeline runs
    /\ text = <<>>
    /\ targetTokens = 1
    /\ overlapTokens = 0
    /\ tolerance = 15
    /\ tokens = <<>>
    /\ startTok = 0
    /\ result = <<>>
    /\ boundaries = <<>>
    /\ seenToks = {}
    /\ spc = "idle"
    /\ caller = "direct"
    /\ earlier = <<>>
    /\ totalTokens = 0
    /\ model = SplitModel
    /\ enc = "none"
    /\ hs = [h \in Handlers |-> IdleHandler]
    /\ chapterTarget = 0
    /\ effectiveTarget = 0
    /\ waited = 0
    /\ clock = 0
    /\ runs = <<>>

RaceSpec == RaceInit /\ [][RaceNext]_vars

----------------------------------------------------------------------------
(* countTokens and getEncoder over texts and model identifiers *)

MaxCalls == 2

countFrame == <<text, targetTokens, overlapTokens, tolerance, startTok, result,
                boundaries, seenToks, caller, model, pipeVars, hs, idVars, promptVars, waited>>

\* countTokens(text, model): the encoder is resolved, the text encoded, the
\* encoder freed; an exception of the resolution reaches the caller
CountTokens ==
    /\ caller = "countTokens" /\ spc = "idle"
    /\ IF getEncoder(model) = "throws"
       THEN /\ spc' = "threw"
            /\ UNCHANGED <<totalTokens, enc>>
       ELSE /\ enc' = getEncoder(model)
            /\ totalTokens' = countTokens(text, model)
            /\ spc' = "done"
    /\ UNCHANGED <<tokens, earlier, countFrame>>

\* the same text is counted once more with the same identifier
CountAgain ==
    /\ caller = "countTokens" /\ spc = "done"
    /\ Len(earlier) < MaxCalls
    /\ earlier' = Append(earlier, totalTokens)
    /\ enc' = "none"
    /\ spc' = "idle"
    /\ UNCHANGED <<totalTokens, tokens, countFrame>>

\* the first two statements of splitByTokensElastic:
\* enc = getEncoder('gpt-5-mini'); tokens = enc.encode(text)
SplitGetEncoder ==
    /\ caller = "splitByTokensElastic" /\ spc = "idle"
    /\ IF getEncoder(model) = "throws"
       THEN /\ spc' = "threw"
            /\ UNCHANGED <<tokens, enc>>
       ELSE /\ enc' = getEncoder(model)
            /\ tokens' = Encode(text)
            /\ spc' = "encoded"
    /\ UNCHANGED <<totalTokens, earlier, countFrame>>

CountNext ==
    \/ CountTokens
    \/ CountAgain
    \/ SplitGetEncoder

\* a text and a model identifier; splitByTokensElastic passes 'gpt-5-mini'
CountInit ==
    /\ text \in Texts
    /\ caller \in {"countTokens", "splitByTokensElastic"}
    /\ model \in Models
    /\ caller = "splitByTokensElastic" => model.id = SplitModel.id
    /\ enc = "none"
    /\ totalTokens = 0
    /\ tokens = <<>>
    /\ targetTokens = DefaultTargetTokens
    /\ overlapTokens = DefaultOverlapTokens
    /\ tolerance = DefaultTolerance
    /\ startTok = 0
    /\ result = <<>>
    /\ boundaries = <<>>
    /\ seenToks = {}
    /\ spc = "idle"
    /\ earlier = <<>>
    \* the pipeline at rest
    /\ nGuide = 1
    /\ nChapters = 1
    /\ bookTooLarge = FALSE
    /\ fBookComplete = FALSE
    /\ fGuideOutput = [n \in 1..MaxGuideChunks |-> "absent"]
    /\ fGlobalGuide = "absent"
    /\ fBoundaries = FALSE
    /\ fChapter = [n \in 1..MaxChapters |-> AbsentChapter]
    /\ fBookFinal = FALSE
    /\ fRerunChapter = [n \in 1..MaxChapters |-> AbsentChapter]
    /\ route = "none"
    /\ pc = "idle"
    /\ idx = 0
    /\ attempt = 0
    /\ parsed = "null"
    /\ parsedCap = NullChapter
    /\ maps = <<>>
    /\ guide = "absent"
    /\ prevChapterFormatted = UndefinedChapter
    /\ inflight = NoCall
    /\ requests = 0
    /\ kind = "none"
    /\ outcome = "none"
    /\ startedCh = <<>>
    /\ wroteCh = {}
    /\ snapshot = [n \in 1..MaxChapters |-> AbsentChapter]
    /\ failedAt = -1
    /\ invocations = 0
    /\ failures = 0
    /\ lastLoop = NoLoop
    /\ hs = [h \in Handlers |-> IdleHandler]
    /\ chapterTarget = 0
    /\ effectiveTarget = 0
    /\ waited = 0
    /\ clock = 0
    /\ runs = <<>>

CountSpec == CountInit /\ [][CountNext]_vars

\* C23: no call of countTokens, and no resolution of the encoder of
\* splitByTokensElastic, ends with an exception; for an identifier the
\* library does not know the encoder is that of o200k_base; the count is the
\* number of tokens of the text, the same at every call.
C23_UnknownModelFallsBack ==
    /\ spc # "threw"
    /\ (spc \in {"done", "encoded"} /\ model.vocabulary = "unknown") => enc = "o200k_base"
    /\ (caller = "countTokens" /\ spc = "done") =>
          /\ totalTokens = Len(Encode(text))
          /\ \A i \in 1..Len(earlier) : earlier[i] = totalTokens
    /\ spc = "encoded" => tokens = Encode(text)

\* a text of two tokens or more counted a second time under an identifier
\* the library does not know
C23_UnknownModelCountedTwice ==
    /\ caller = "countTokens" /\ spc = "done"
    /\ model.vocabulary = "unknown"
    /\ earlier # <<>>
    /\ totalTokens >= 2

----------------------------------------------------------------------------
(* buildGlobalGuide: the raw aggregate of the partial guides (guideRaw)    *)

MaxTimeline == 2

\* What a timeline entry of a parsed partial guide can be: null; an object
\* whose event is missing or empty (event ""); an object with an event.  The
\* order is whatever number the answer carried.
TimelineEntries ==
    {[null |-> TRUE, order |-> 0, event |-> ""],
     [null |-> FALSE, order |-> 7, event |-> ""],
     [null |-> FALSE, order |-> 7, event |-> "x"],
     [null |-> FALSE, order |-> 2, event |-> "y"]}

\* m.timeline: missing (or falsy), or an array of entries
Timelines ==
    {[defined |-> FALSE, entries |-> <<>>]}
      \cup {[defined |-> TRUE, entries |-> es] :
               es \in UNION {[1..n -> TimelineEntries] : n \in 0..MaxTimeline}}

\* what maps.push(parsed!) pushes: null, or an object
PartialGuides ==
    {[null |-> TRUE, timeline |-> [defined |-> FALSE, entries |-> <<>>]]}
      \cup {[null |-> FALSE, timeline |-> tl] : tl \in Timelines}

\* maps.flatMap((m) => m.timeline || [])
RECURSIVE flatMapTimeline(_)
flatMapTimeline(ms) ==
    IF ms = <<>> THEN <<>>
    ELSE (IF Head(ms).timeline.defined THEN Head(ms).timeline.entries ELSE <<>>)
           \o flatMapTimeline(Tail(ms))

\* (e) => e?.event, as a condition
hasEvent(e) == ~e.null /\ e.event # ""

\* an aggregate that keeps the order each entry came with
guideRawTimelineAsGiven(ms) ==
    LET kept == SelectSeq(flatMapTimeline(ms), hasEvent)
    IN  [i \in 1..Len(kept) |-> [order |-> kept[i].order, event |-> kept[i].event]]

\* .flatMap(...).filter((e) => e?.event).map((e, i) => ({order: i + 1, event: e.event})),
\* the index i counted from 0 in the code and from 1 here
guideRawTimeline(ms) ==
    LET kept == SelectSeq(flatMapTimeline(ms), hasEvent)
    IN  [i \in 1..Len(kept) |-> [order |-> i, event |-> kept[i].event]]

guideFrame == <<dirVars, route, idx, attempt, parsed, parsedCap, maps,
                prevChapterFormatted, inflight, historyVars, splitVars, hs, idVars, promptVars, waited>>

\* const guideRaw = {..., timeline: ..., ...}
GuideRaw ==
    /\ caller = "buildGlobalGuide" /\ pc = "aggregate"
    /\ \A j \in 1..Len(maps) : ~maps[j].null
    /\ guide' = [timeline |-> guideRawTimeline(maps)]
    /\ pc' = "raw"
    /\ UNCHANGED guideFrame

\* maps.flatMap((m) => m.characters || []) reads a property of null
GuideRawThrows ==
    /\ caller = "buildGlobalGuide" /\ pc = "aggregate"
    /\ \E j \in 1..Len(maps) : maps[j].null
    /\ pc' = "threw"
    /\ UNCHANGED <<guide, guideFrame>>

GuideNext ==
    \/ GuideRaw
    \/ GuideRawThrows

\* the partial guides of every chunk have been pushed
GuideInit ==
    /\ maps \in UNION {[1..n -> PartialGuides] : n \in 1..MaxGuideChunks}
    /\ guide = [timeline |-> <<>>]
    /\ pc = "aggregate"
    /\ caller = "buildGlobalGuide"
    /\ text = <<>>
    /\ targetTokens = DefaultTargetTokens
    /\ overlapTokens = DefaultOverlapTokens
    /\ tolerance = DefaultTolerance
    /\ tokens = <<>>
    /\ startTok = 0
    /\ result = <<>>
    /\ boundaries = <<>>
    /\ seenToks = {}
    /\ spc = "idle"
    /\ earlier = <<>>
    /\ totalTokens = 0
    /\ model = SplitModel
    /\ enc = "none"
    \* the pipeline at rest
    /\ nGuide = 1
    /\ nChapters = 1
    /\ bookTooLarge = FALSE
    /\ fBookComplete = FALSE
    /\ fGuideOutput = [n \in 1..MaxGuideChunks |-> "absent"]
    /\ fGlobalGuide = "absent"
    /\ fBoundaries = FALSE
    /\ fChapter = [n \in 1..MaxChapters |-> AbsentChapter]
    /\ fBookFinal = FALSE
    /\ fRerunChapter = [n \in 1..MaxChapters |-> AbsentChapter]
    /\ route = "none"
    /\ idx = 0
    /\ attempt = 0
    /\ parsed = "null"
    /\ parsedCap = NullChapter
    /\ prevChapterFormatted = UndefinedChapter
    /\ inflight = NoCall
    /\ requests = 0
    /\ kind = "none"
    /\ outcome = "none"
    /\ startedCh = <<>>
    /\ wroteCh = {}
    /\ snapshot = [n \in 1..MaxChapters |-> AbsentChapter]
    /\ failedAt = -1
    /\ invocations = 0
    /\ failures = 0
    /\ lastLoop = NoLoop
    /\ hs = [h \in Handlers |-> IdleHandler]
    /\ chapterTarget = 0
    /\ effectiveTarget = 0
    /\ waited = 0
    /\ clock = 0
    /\ runs = <<>>

GuideSpec == GuideInit /\ [][GuideNext]_vars

\* the places <<chunk, position>> of the entries that have an event
EventPlaces ==
    {p \in (1..Len(maps)) \X (1..MaxTimeline) :
        /\ maps[p[1]].timeline.defined
        /\ p[2] <= Len(maps[p[1]].timeline.entries)
        /\ hasEvent(maps[p[1]].timeline.entries[p[2]])}

\* the number of places with an event up to and including p, in chunk order
\* and then in the order within the chunk
PlaceRank(p) ==
    Cardinality({q \in EventPlaces : q[1] < p[1] \/ (q[1] = p[1] /\ q[2] <= p[2])})

\* C24: the timeline of the raw aggregate has one entry for each entry of a
\* partial guide that has an event, in chunk order and then in the order
\* within the chunk, with that entry's event, and the order fields are
\* 1, 2, ..., N whatever orders the partial guides carried.
C24_TimelineRenumbered ==
    (caller = "buildGlobalGuide" /\ pc = "raw") =>
        /\ Len(guide.timeline) = Cardinality(EventPlaces)
        /\ \A i \in 1..Len(guide.timeline) : guide.timeline[i].order = i
        /\ \A p \in EventPlaces :
              guide.timeline[PlaceRank(p)].event = maps[p[1]].timeline.entries[p[2]].event

\* two chunks with events, some entry without one, and no entry that came
\* with the order it gets
C24_TwoChunksRenumbered ==
    /\ caller = "buildGlobalGuide" /\ pc = "raw"
    /\ Len(maps) = 2
    /\ \E p, q \in EventPlaces : p[1] = 1 /\ q[1] = 2
    /\ Len(flatMapTimeline(maps)) > Len(guide.timeline)
    /\ \A p \in EventPlaces :
          maps[p[1]].timeline.entries[p[2]].order # PlaceRank(p)

----------------------------------------------------------------------------
(* computeChapterSegmentationParams over books of every size: the          *)
(* statistics route counts the tokens of the uploaded book and computes    *)
(* the parameters of its chapter split from the count.                     *)

\* the sizes tried: a grid over [0, MAX_BOOK_TOKENS + MIN_BOOK_TOKENS] and
\* every size within ParamRadius of the two reference sizes, of a size
\* whose interpolation falls half-way between two integers, and of 100,000
ParamStride == 10000

ParamRadius == 25

\* (HalfwayBookTokens - MIN_BOOK_TOKENS) * 29 / 1120 = 14.5
HalfwayBookTokens == MIN_BOOK_TOKENS + 560

ParamInputs ==
    {k * ParamStride : k \in 0..((MAX_BOOK_TOKENS + MIN_BOOK_TOKENS) \div ParamStride)}
      \cup UNION {{c + d - ParamRadius : d \in 0..(2 * ParamRadius)} :
                   c \in {MIN_BOOK_TOKENS, MAX_BOOK_TOKENS, HalfwayBookTokens,
                          100000}}

paramFrame == <<text, tolerance, tokens, startTok, result, boundaries, seenToks,
                caller, model, enc, pipeVars, hs, idVars, promptVars, waited>>

\* const {chapterInputTokens, chapterOverlapTokens} =
\*   computeChapterSegmentationParams(totalTokens)
ComputeParams ==
    /\ caller = "params" /\ spc = "idle"
    /\ targetTokens' = chapterInputTokens(totalTokens)
    /\ overlapTokens' = chapterOverlapTokens(totalTokens)
    /\ spc' = "done"
    /\ UNCHANGED <<totalTokens, earlier, paramFrame>>

\* the next request brings a larger book; what the last one got is kept
NextBook ==
    /\ caller = "params" /\ spc = "done"
    /\ \E t \in ParamInputs :
          /\ totalTokens < t /\ t <= totalTokens + ParamStride
          /\ totalTokens' = t
    /\ earlier' = <<[totalTokens |-> totalTokens,
                     chapterInputTokens |-> targetTokens,
                     chapterOverlapTokens |-> overlapTokens]>>
    /\ spc' = "idle"
    /\ UNCHANGED <<targetTokens, overlapTokens, paramFrame>>

ParamNext ==
    \/ ComputeParams
    \/ NextBook

\* a book of any of the sizes; the parameters not computed yet
ParamInit ==
    /\ totalTokens \in ParamInputs
    /\ targetTokens = DefaultTargetTokens
    /\ overlapTokens = DefaultOverlapTokens
    /\ tolerance = DefaultTolerance
    /\ text = <<>>
    /\ tokens = <<>>
    /\ startTok = 0
    /\ result = <<>>
    /\ boundaries = <<>>
    /\ seenToks = {}
    /\ spc = "idle"
    /\ caller = "params"
    /\ earlier = <<>>
    /\ model = SplitModel
    /\ enc = "none"
    \* the pipeline at rest
    /\ nGuide = 1
    /\ nChapters = 1
    /\ bookTooLarge = FALSE
    /\ fBookComplete = FALSE
    /\ fGuideOutput = [n \in 1..MaxGuideChunks |-> "absent"]
    /\ fGlobalGuide = "absent"
    /\ fBoundaries = FALSE
    /\ fChapter = [n \in 1..MaxChapters |-> AbsentChapter]
    /\ fBookFinal = FALSE
    /\ fRerunChapter = [n \in 1..MaxChapters |-> AbsentChapter]
    /\ route = "none"
    /\ pc = "idle"
    /\ idx = 0
    /\ attempt = 0
    /\ parsed = "null"
    /\ parsedCap = NullChapter
    /\ maps = <<>>
    /\ guide = "absent"
    /\ prevChapterFormatted = UndefinedChapter
    /\ inflight = NoCall
    /\ requests = 0
    /\ kind = "none"
    /\ outcome = "none"
    /\ startedCh = <<>>
    /\ wroteCh = {}
    /\ snapshot = [n \in 1..MaxChapters |-> AbsentChapter]
    /\ failedAt = -1
    /\ invocations = 0
    /\ failures = 0
    /\ lastLoop = NoLoop
    /\ hs = [h \in Handlers |-> IdleHandler]
    /\ chapterTarget = 0
    /\ effectiveTarget = 0
    /\ waited = 0
    /\ clock = 0
    /\ runs = <<>>

ParamSpec == ParamInit /\ [][ParamNext]_vars

ParamsComputed == caller = "params" /\ spc = "done"

\* C21: chapterInputTokens is the integer nearest to
\* 11000 + clamp((totalTokens - 80000) / 1120000, 0, 1) * 29000 (the upper one
\* of two equally near): 11000 up to 80000 tokens, 40000 from 1200000 tokens
\* on, within [11000, 40000] always, and never smaller for a larger book.
C21_ChapterInputTokens ==
    ParamsComputed =>
        LET clamped == Max(MIN_BOOK_TOKENS, Min(MAX_BOOK_TOKENS, totalTokens))
            \* 1120 * (exact value - 11000)
            exact1120 == (clamped - MIN_BOOK_TOKENS) * 29
            got1120 == (targetTokens - MIN_CH_INPUT) * 1120
        IN  /\ totalTokens <= MIN_BOOK_TOKENS => targetTokens = MIN_CH_INPUT
            /\ totalTokens >= MAX_BOOK_TOKENS => targetTokens = MAX_CH_INPUT
            /\ MIN_CH_INPUT <= targetTokens /\ targetTokens <= MAX_CH_INPUT
            /\ got1120 - exact1120 <= 560 /\ exact1120 - got1120 < 560
            /\ earlier # <<>> => earlier[1].chapterInputTokens <= targetTokens

\* a book between the reference sizes, after a smaller one that got a
\* smaller chunk size
C21_InterpolatedAfterSmaller ==
    /\ ParamsComputed
    /\ MIN_BOOK_TOKENS < totalTokens /\ totalTokens < MAX_BOOK_TOKENS
    /\ earlier # <<>> /\ earlier[1].chapterInputTokens < targetTokens
    /\ MIN_CH_INPUT < targetTokens /\ targetTokens < MAX_CH_INPUT

\* C22: chapterOverlapTokens is round(clamp(0.1 * chapterInputTokens, 400,
\* 2000)): within [400, 2000], never above chapterInputTokens; a book of
\* 100,000 tokens gets a chunk size a little above 11,000 (11518) and a
\* tenth of it (1152) as overlap.
C22_ChapterOverlapTokens ==
    ParamsComputed =>
        LET tenth == MathRound(targetTokens, 10)
        IN  /\ overlapTokens = Max(400, Min(2000, tenth))
            /\ 400 <= overlapTokens /\ overlapTokens <= 2000
            /\ overlapTokens <= targetTokens
            /\ totalTokens = 100000 =>
                  /\ targetTokens = 11518
                  /\ overlapTokens = 1152

C22_HundredThousandTokens ==
    /\ ParamsComputed
    /\ totalTokens = 100000
    /\ overlapTokens = 1152

----------------------------------------------------------------------------
(* summarizeChapterWithContext: the output budget written into the prompt *)

MaxChapterTarget == 120

\* targetTokens: 800 at the three callers of the server
CallerTargetTokens == 800

\* targetTokens = 900 when the caller gives none
DefaultChapterTarget == 900

EffectiveTargetFloor == 100

\* 0.45, in percent
ShrinkPercent == 45

\* const effectiveTarget = Math.max(100, Math.round(targetTokens * 0.45))
EffectiveTargetOf(t) ==
    Max(EffectiveTargetFloor, MathRound(t * ShrinkPercent, 100))

BudgetTargets == (1..MaxChapterTarget) \cup {CallerTargetTokens, DefaultChapterTarget}

\* summarizeChapterWithContext(args) up to the prompt
SummarizeBudget ==
    /\ caller = "budget" /\ spc = "idle"
    /\ effectiveTarget' = EffectiveTargetOf(chapterTarget)
    /\ spc' = "done"
    /\ UNCHANGED <<chapterTarget, text, targetTokens, overlapTokens, tolerance,
                   tokens, startTok, result, boundaries, seenToks, caller, earlier,
                   totalTokens, model, enc, pipeVars, hs, idVars, waited>>

\* the next call, with another target
SummarizeAgain ==
    /\ caller = "budget" /\ spc = "done"
    /\ \E t \in BudgetTargets :
          /\ t # chapterTarget
          /\ chapterTarget' = t
    /\ effectiveTarget' = 0
    /\ spc' = "idle"
    /\ UNCHANGED <<text, targetTokens, overlapTokens, tolerance,
                   tokens, startTok, result, boundaries, seenToks, caller, earlier,
                   totalTokens, model, enc, pipeVars, hs, idVars, waited>>

BudgetNext ==
    \/ SummarizeBudget
    \/ SummarizeAgain

\* the first call is one of the server's, or one that gives no target
BudgetInit ==
    /\ chapterTarget \in {CallerTargetTokens, DefaultChapterTarget}
    /\ effectiveTarget = 0
    /\ waited = 0
    /\ clock = 0
    /\ runs = <<>>
    /\ totalTokens = 0
    /\ targetTokens = DefaultTargetTokens
    /\ overlapTokens = DefaultOverlapTokens
    /\ tolerance = DefaultTolerance
    /\ text = <<>>
    /\ tokens = <<>>
    /\ startTok = 0
    /\ result = <<>>
    /\ boundaries = <<>>
    /\ seenToks = {}
    /\ spc = "idle"
    /\ caller = "budget"
    /\ earlier = <<>>
    /\ model = SplitModel
    /\ enc = "none"
    \* the pipeline at rest
    /\ nGuide = 1
    /\ nChapters = 1
    /\ bookTooLarge = FALSE
    /\ fBookComplete = FALSE
    /\ fGuideOutput = [n \in 1..MaxGuideChunks |-> "absent"]
    /\ fGlobalGuide = "absent"
    /\ fBoundaries = FALSE
    /\ fChapter = [n \in 1..MaxChapters |-> AbsentChapter]
    /\ fBookFinal = FALSE
    /\ fRerunChapter = [n \in 1..MaxChapters |-> AbsentChapter]
    /\ route = "none"
    /\ pc = "idle"
    /\ idx = 0
    /\ attempt = 0
    /\ parsed = "null"
    /\ parsedCap = NullChapter
    /\ maps = <<>>
    /\ guide = "absent"
    /\ prevChapterFormatted = UndefinedChapter
    /\ inflight = NoCall
    /\ requests = 0
    /\ kind = "none"
    /\ outcome = "none"
    /\ startedCh = <<>>
    /\ wroteCh = {}
    /\ snapshot = [n \in 1..MaxChapters |-> AbsentChapter]
    /\ failedAt = -1
    /\ invocations = 0
    /\ failures = 0
    /\ lastLoop = NoLoop
    /\ hs = [h \in Handlers |-> IdleHandler]

BudgetSpec == BudgetInit /\ [][BudgetNext]_vars

BudgetComputed == caller = "budget" /\ spc = "done"

\* C31: the output budget given to the oracle never exceeds the caller's
\* targetTokens, for every targetTokens >= 1.
C31_BudgetWithinTarget ==
    (BudgetComputed /\ chapterTarget >= 1) => effectiveTarget <= chapterTarget

----------------------------------------------------------------------------
(* generateProcessId and the output directories of the executions *)

MaxClock == 5

TicksPerMinute == 3

MaxRuns == 2

\* the names of uploaded files, after sanitizeDirName and stripDiacritics
FileNames == {"a", "b"}

\* `${year}-${month}-${day}_${hours}-${minutes}`: the clock down to the minute
generateProcessId(now) == now \div TicksPerMinute

\* const processId = safeFileBase ? `${baseId} (${safeFileBase})` : baseId
\* (a path, as the sequence of its directory names)
processId(now, safeFileBase) ==
    <<[id |-> generateProcessId(now), name |-> safeFileBase]>>

\* const rerunId = `rerun_${generateProcessId()}`;
\* const rerunSubDir = path.join(processDir, rerunId)
rerunSubDir(processDir, now) ==
    Append(processDir, [id |-> generateProcessId(now), name |-> "rerun"])

idFrame == <<splitVars, pipeVars, hs, promptVars, waited>>

\* time passes
Tick ==
    /\ caller = "ids"
    /\ clock < MaxClock
    /\ clock' = clock + 1
    /\ UNCHANGED <<runs, idFrame>>

\* POST /extract-auto with an upload of this name: outputs/<processId>
ExtractDirectory(name) ==
    /\ caller = "ids"
    /\ Len(runs) < MaxRuns
    /\ runs' = Append(runs, [route |-> "extract", at |-> clock,
                             dir |-> processId(clock, name)])
    /\ UNCHANGED <<clock, idFrame>>

\* POST /rerun-chapter-from-outputs on the directory of an earlier upload
RerunDirectory(r) ==
    /\ caller = "ids"
    /\ Len(runs) < MaxRuns
    /\ r \in 1..Len(runs) /\ runs[r].route = "extract"
    /\ runs' = Append(runs, [route |-> "rerun", at |-> clock,
                             dir |-> rerunSubDir(runs[r].dir, clock)])
    /\ UNCHANGED <<clock, idFrame>>

IdNext ==
    \/ Tick
    \/ \E name \in FileNames : ExtractDirectory(name)
    \/ \E r \in 1..MaxRuns : RerunDirectory(r)

IdInit ==
    /\ clock = 0
    /\ runs = <<>>
    /\ chapterTarget = 0
    /\ effectiveTarget = 0
    /\ waited = 0
    /\ totalTokens = 0
    /\ targetTokens = DefaultTargetTokens
    /\ overlapTokens = DefaultOverlapTokens
    /\ tolerance = DefaultTolerance
    /\ text = <<>>
    /\ tokens = <<>>
    /\ startTok = 0
    /\ result = <<>>
    /\ boundaries = <<>>
    /\ seenToks = {}
    /\ spc = "idle"
    /\ caller = "ids"
    /\ earlier = <<>>
    /\ model = SplitModel
    /\ enc = "none"
    \* the pipeline at rest
    /\ nGuide = 1
    /\ nChapters = 1
    /\ bookTooLarge = FALSE
    /\ fBookComplete = FALSE
    /\ fGuideOutput = [n \in 1..MaxGuideChunks |-> "absent"]
    /\ fGlobalGuide = "absent"
    /\ fBoundaries = FALSE
    /\ fChapter = [n \in 1..MaxChapters |-> AbsentChapter]
    /\ fBookFinal = FALSE
    /\ fRerunChapter = [n \in 1..MaxChapters |-> AbsentChapter]
    /\ route = "none"
    /\ pc = "idle"
    /\ idx = 0
    /\ attempt = 0
    /\ parsed = "null"
    /\ parsedCap = NullChapter
    /\ maps = <<>>
    /\ guide = "absent"
    /\ prevChapterFormatted = UndefinedChapter
    /\ inflight = NoCall
    /\ requests = 0
    /\ kind = "none"
    /\ outcome = "none"
    /\ startedCh = <<>>
    /\ wroteCh = {}
    /\ snapshot = [n \in 1..MaxChapters |-> AbsentChapter]
    /\ failedAt = -1
    /\ invocations = 0
    /\ failures = 0
    /\ lastLoop = NoLoop
    /\ hs = [h \in Handlers |-> IdleHandler]

IdSpec == IdInit /\ [][IdNext]_vars

\* C39: two executions never have the same output directory.
C39_DistinctRunDirectories ==
    \A i, j \in 1..Len(runs) : i # j => runs[i].dir # runs[j].dir

----------------------------------------------------------------------------
(* Properties of the chapter pipeline and of the guide build *)

\* C5: in /extract-auto and /resume-extract-auto the oracle call for chapter
\* i > 0 is in flight only when chapter_<i>_formatted.json (the output of
\* stage i-1) is on disk, and the stages of one execution are started in
\* strictly increasing index order.
C5_Ordering ==
    /\ (route \in {"extract", "resume"} /\ inflight.site = "chapter" /\ inflight.idx > 0)
          => fChapter[inflight.idx] # AbsentChapter
    /\ route \in {"extract", "resume"} =>
          \A a, b \in 1..Len(startedCh) : a < b => startedCh[a] < startedCh[b]

C5_SecondStageInFlight ==
    /\ route = "extract"
    /\ inflight.site = "chapter" /\ inflight.idx = 1
    /\ startedCh = <<0, 1>>

\* C6: every chapter call for an index i > 0, in any of the three routes,
\* carries the stored output of chapter i-1 as its previous chapter, and the
\* guide stored as book_global_guide.json.
C6_PreviousGiven ==
    (inflight.site = "chapter" /\ inflight.idx > 0) =>
        /\ inflight.prev.shape \in {"valid", "empty"}
        /\ inflight.prev = fChapter[inflight.idx]
        /\ inflight.guide = fGlobalGuide

\* the leading indices whose chapter files are all present
CompletedPrefix(ch) ==
    Cardinality({k \in 1..nChapters : \A j \in 1..k : ch[j] # AbsentChapter})

\* C7: when /resume-extract-auto finds chapters 0..k-1 saved and chapter k
\* not, it calls the oracle for no index below k, its first chapter call is
\* for index k, and the files of the indices below k stay as they were.
C7_IdempotentResume ==
    route = "resume" =>
        /\ \A n \in 1..Len(startedCh) : startedCh[n] >= CompletedPrefix(snapshot)
        /\ startedCh # <<>> => startedCh[1] = CompletedPrefix(snapshot)
        /\ \A j \in 1..CompletedPrefix(snapshot) : fChapter[j] = snapshot[j]

C7_ResumedAfterFirstChapter ==
    /\ route = "resume"
    /\ CompletedPrefix(snapshot) = 1
    /\ nChapters > 1
    /\ startedCh # <<>> /\ startedCh[1] = 1

\* C8: once the chapter call for index i has exhausted its retries the
\* execution is over with an error: it made no call for an index above i,
\* wrote no chapter file for an index at or above i, and every chapter file it
\* did not write itself is as it was when the execution started.
C8_HaltsAtFailedIndex ==
    failedAt # -1 =>
        /\ route = "none" /\ outcome = "error"
        /\ \A n \in 1..Len(startedCh) : startedCh[n] <= failedAt
        /\ \A j \in wroteCh : j < failedAt
        /\ \A j \in 0..(MaxChapters - 1) :
              IF j \in wroteCh
              THEN fChapter[j + 1] # AbsentChapter /\ fChapter[j + 1].by = requests
              ELSE fChapter[j + 1] = snapshot[j + 1]

C8_FailedAfterFirstChapter ==
    /\ failedAt = 1
    /\ wroteCh = {0}
    /\ startedCh = <<0, 1>>

\* the ceiling of each call site
MaxAttemptsOf(site) ==
    IF site = "polish" THEN PolishMaxAttempts
    ELSE IF site = "map" THEN MapMaxAttempts ELSE ChapterMaxAttempts

\* C9: a retry loop that has ended made at most its ceiling of oracle
\* invocations; if it ended with a result, the invocations are the failures
\* plus one; if it ended without a result, it ended by throwing.
C9_BoundedRetries ==
    lastLoop.site # "none" =>
        /\ lastLoop.invocations <= MaxAttemptsOf(lastLoop.site)
        /\ lastLoop.accepted => lastLoop.invocations = lastLoop.failures + 1
        /\ ~lastLoop.accepted => lastLoop.thrown

\* C10: at the reduce of buildGlobalGuide there is one partial guide per
\* chunk and each of them is an object (none is null, falsy or missing).
C10_OneGuidePerChunk ==
    (InGuide /\ pc = "aggregate") =>
        /\ Len(maps) = nGuide
        /\ \A j \in 1..Len(maps) : Truthy(maps[j])

\* C11: the polish call is in flight only when every chunk has given a
\* partial guide; a polish loop that ended without a result ended by
\* throwing; and what is stored as book_global_guide.json is a result of
\* polish, so nothing is stored when polish has produced none.
C11_PolishAfterMaps ==
    /\ inflight.site = "polish" =>
          (Len(maps) = nGuide /\ \A j \in 1..Len(maps) : Truthy(maps[j]))
    /\ (lastLoop.site = "polish" /\ ~lastLoop.accepted) => lastLoop.thrown
    /\ fGlobalGuide # "absent" => Truthy(fGlobalGuide)

\* C16: every chapter_<i>_formatted.json on disk holds an answer that had a
\* title and a content list, and book_global_guide.json holds an answer that
\* had the fields of a guide; no file holds defaulted empty values.
C16_WrittenArtifactsValid ==
    /\ \A j \in 1..MaxChapters : fChapter[j].shape \in {"absent", "valid"}
    /\ \A j \in 1..MaxChapters : fRerunChapter[j].shape \in {"absent", "valid"}
    /\ fGlobalGuide \in {"absent", "valid"}

\* C17: an answer that is valid JSON without the expected shape is never
\* held as the result of a call site: it is retried like an empty answer.
C17_WrongShapeRetried ==
    /\ parsed # "wrongshape"
    /\ parsedCap.shape # "empty"

\* the artifacts of the source run directory outputs/<processDir>/
sourceRunFiles == <<fBookComplete, fGuideOutput, fGlobalGuide, fBoundaries, fChapter,
                    fBookFinal>>

\* C14: no step of a /rerun-chapter-from-outputs execution, from its
\* acceptance to its answer, successful or not, changes a file of the source
\* run directory.
C14_RerunLeavesSource ==
    [][kind' = "rerun" => UNCHANGED sourceRunFiles]_vars

C14_RerunSaved ==
    /\ kind = "rerun" /\ route = "none" /\ outcome = "ok"
    /\ \E j \in 1..MaxChapters : fRerunChapter[j].shape = "valid"

\* C15: a /resume-extract-auto request that finds no book_complete.txt ends
\* in the step that accepts it, with an error, no oracle call issued, and
\* every file as it was.
C15_ResumeNeedsBook ==
    [][(kind' = "resume" /\ requests' # requests /\ ~fBookComplete) =>
          /\ UNCHANGED dirVars
          /\ route' = "none" /\ outcome' = "error"
          /\ inflight' = NoCall /\ invocations' = 0 /\ startedCh' = <<>>]_vars

C15_ResumeRefused ==
    /\ kind = "resume" /\ route = "none" /\ outcome = "error"
    /\ ~fBookComplete
    /\ invocations = 0 /\ lastLoop = NoLoop

\* C19: a request is sent to the oracle only when no other is awaited; the
\* polish request is sent when the map has an entry for every chunk; the
\* request of a chapter is sent when the chapter before it, if this execution
\* started it, has been saved.
C19_OneCallOutstanding ==
    /\ [][(inflight' # NoCall /\ inflight' # inflight) => inflight = NoCall]_vars
    /\ [](inflight.site = "polish" => Len(maps) = nGuide)
    /\ []((inflight.site = "chapter" /\ route # "rerun" /\ Len(startedCh) > 1)
            => (inflight.idx - 1) \in wroteCh)

C19_PolishAfterTwoMaps ==
    /\ inflight.site = "polish"
    /\ nGuide = 2 /\ Len(maps) = 2

\* C32: at the three call sites attempt k+1 is sent after a wait of exactly
\* k * 1000 ms that follows the end of attempt k.
C32_BackoffBeforeAttempt ==
    (inflight.site \in {"map", "polish", "chapter"} /\ attempt >= 2)
        => waited = 1000 * (attempt - 1)

\* C33: when the loop of buildGlobalGuide reaches a chunk whose
\* guide_output_<n>.json exists, the stored partial is pushed as entry n of
\* the maps, no request is sent and no file is written; the first request for
\* a chunk is sent only when the chunk has no stored partial; and a stored
\* partial is never rewritten outside the retry loop that wrote it.
C33_StoredPartialReused ==
    /\ [][(InGuide /\ pc = "map" /\ idx < nGuide /\ fGuideOutput[idx + 1] # "absent")
            => /\ maps' = Append(maps, fGuideOutput[idx + 1])
               /\ idx' = idx + 1 /\ pc' = "map"
               /\ inflight' = NoCall /\ invocations' = invocations
               /\ UNCHANGED dirVars]_vars
    /\ []((inflight.site = "map" /\ attempt = 1) => fGuideOutput[idx + 1] = "absent")
    /\ [][\A n \in 1..MaxGuideChunks :
            (fGuideOutput[n] # "absent" /\ fGuideOutput'[n] # fGuideOutput[n])
                => (pc = "mapAwait" /\ idx + 1 = n /\ attempt >= 2)]_vars

\* a resume has skipped chunk 1, whose partial the execution before it had
\* stored, and stands before chunk 2, which has none
C33_ResumeSkippedStoredChunk ==
    /\ kind = "resume" /\ route = "resume" /\ pc = "map"
    /\ nGuide = 2 /\ idx = 1
    /\ maps = <<fGuideOutput[1]>> /\ fGuideOutput[1] # "absent"
    /\ fGuideOutput[2] = "absent"
    /\ invocations = 0 /\ lastLoop = NoLoop

\* every chapter of the book has its chapter_<n>_formatted.json
AllChaptersSaved(ch) == \A n \in 1..nChapters : ch[n] # AbsentChapter

\* C34: a /resume-extract-auto request that finds a chapter file for every
\* chapter index answers that nothing is pending, and none of its steps sends
\* a request to the oracle, enters the recomposition or changes a file of the
\* run directory.
C34_NothingPendingIsInert ==
    [][(\/ (requests' = requests + 1 /\ kind' = "resume" /\ AllChaptersSaved(fChapter))
        \/ (route = "resume" /\ AllChaptersSaved(snapshot)))
          => /\ UNCHANGED dirVars
             /\ inflight' = NoCall
             /\ pc' \in {"scan", "idle"}
             /\ route' = "none" => outcome' = "nothing"]_vars

\* a resume of a book of two chapters, both saved before it, has answered
C34_ResumedCompleteRun ==
    /\ kind = "resume" /\ route = "none" /\ outcome = "nothing"
    /\ nChapters = 2 /\ AllChaptersSaved(snapshot)

\* C35: when /resume-extract-auto has answered with success, book_final.json
\* exists in the run directory.
C35_SuccessHasBookFinal ==
    (kind = "resume" /\ route = "none" /\ outcome \in {"ok", "nothing"})
        => fBookFinal

\* C36: no guide-map, polish or chapter request is sent for a book over the
\* size limit.
C36_NoCallForOversizedBook ==
    bookTooLarge => inflight = NoCall

----------------------------------------------------------------------------
(* Properties of requests that share a run directory, under RaceSpec *)

\* C12: no reader takes a chapter file for present while only part of its
\* content is written: neither the fs.access scan of a resume counts such a
\* file, nor does its recomposition read one.
C12_AtomicCheckpoint == \A h \in Handlers : ~hs[h].sawPartial

\* C13: no handler of /extract-auto or /resume-extract-auto opens for
\* writing a chapter file that already exists with its content.
C13_AppendOnly == \A h \in Handlers : ~hs[h].over

\* C18: at no time are two handlers at work in the same run directory.
C18_SingleWriter == Cardinality({h \in Handlers : Active(h)}) <= 1

====
